---- MODULE Spec2Model ----
(***************************************************************************)
(* Privacy control plane of the desktop assistant (src-tauri):             *)
(*   - backend_routing.rs          the backend router                      *)
(*   - attribute_extraction*.rs    the attributes-only chat path           *)
(*   - db.rs / commands.rs         the persona store                       *)
(*   - llama_backend.rs            the local inference host                *)
(* Each subsystem has its own variables, actions and specification; the    *)
(* variables of the other subsystems stay unchanged under it.              *)
(*                                                                         *)
(* Vocabulary: the spec's backends direct / local / hybrid are the code's  *)
(* "nebius" / "ollama" / "hybrid"; the spec's fallback event               *)
(* local_unavailable is the code's FallbackEvent::OllamaUnavailable.       *)
(***************************************************************************)
EXTENDS Integers, Sequences, FiniteSets, TLC

VARIABLES
    \* ---- backend router (backend_routing.rs)
    rtOp,          \* the routing operation last called, "none" before any call
    rtPersona,     \* the persona it was called with
    rtAvailable,   \* what ollama_client.is_available() answered in that call
    rtResult,      \* what the operation returned: Ok(value) or Err(message)
    \* ---- process_chat_with_privacy (attribute_extraction_commands.rs)
    chPc,          \* position of the handler
    chText,        \* the user text, a sequence of tokens
    chPersona,     \* the persona of the request
    chDecision,    \* the routing decision obtained at line 166
    chIo,          \* I/O performed by the handler, in order
    chIoAtDecision,\* Len(chIo) when the decision was obtained
    chResult,      \* the handler's return value
    \* ---- persona store (db.rs)
    personas,      \* the personas table: id -> row
    dbResult,      \* result of the last store operation
    \* ---- local inference host (llama_backend.rs)
    files,         \* model ids whose GGUF file is on disk
    active_model_id,
    loaded_model,  \* the slot: None or Some(model id)
    slotLock,      \* holder of the loaded_model mutex: None or Some(task)
    is_loading,    \* the AtomicBool
    pc,            \* per task: position in generate / preload
    op,            \* per task: the operation it runs
    active_id,     \* per task: the local active_id of load_model_if_needed
    built,         \* per task: the LoadedModel its load built, not yet in the slot
    using,         \* per task: the model id its decode runs on
    ret,           \* per task: the result of its call (pending until it returns)
    cmdRet,        \* result of the last set_active_model / delete_model
    \* ---- model download (llama_backend.rs 213-312, 649-667)
    download_progress, \* the AtomicU8 percent counter
    temps,         \* model ids whose ".gguf.downloading" temp file exists
    dlPc,          \* per download task: position in download_model_by_id
    dlId,          \* per download task: the model id it downloads
    dlDone,        \* per download task: chunks read from the response so far
    dlRet,         \* per download task: the result of its last call
    dlFile,        \* per download task: where the file it has open sits now
    tempBytes,     \* per model id: the chunks held by the file at its temp path
    fileBytes,     \* per model id: the chunks held by the file at its final path
    \* ---- anonymization service (anonymization.rs)
    anPc,          \* "idle", "anonymized" or "deanonymized"
    anText,        \* the text given to anonymize_text, a sequence of tokens
    anExtraction,  \* the PIIExtraction given to anonymize_text
    anOut,         \* what anonymize_text returned: the text and the mappings
    anDeanon,      \* what deanonymize_text returned for anOut
    \* ---- re-hydration (rehydration.rs)
    rhPc,          \* "idle", "once", "twice", "analyzed": calls made with the same arguments
    rhTemplate,    \* the template given to rehydrate_template, a sequence of tokens
    rhPii,         \* the PIIValues given to rehydrate_template
    rhResult,      \* the RehydrationResult of the last call
    rhAnalysis,    \* the TemplateAnalysis of the same template and values
    \* ---- generation (llama_backend.rs run_inference)
    gnPc,          \* position in run_inference
    ctx_size,      \* the context window of the loaded model
    token_count,   \* the length of the (truncated) prompt in tokens
    chunk_i,       \* prefill chunks decoded so far
    batch,         \* the LlamaBatch: position of its first token, its size
    decoded,       \* tokens decoded into the context so far
    n_cur,         \* the position given to the next sampled token
    token_idx,     \* iterations of the sampling loop so far
    output_bytes,  \* the bytes generated so far
    rep_count,     \* the counter of the repetition guard
    stop,          \* why the sampling loop ended
    len_at_stop,   \* the length of output_bytes when the loop ended
    gnRet          \* the result of run_inference

rtVars == <<rtOp, rtPersona, rtAvailable, rtResult>>
chVars == <<chPc, chText, chPersona, chDecision, chIo, chIoAtDecision, chResult>>
dbVars == <<personas, dbResult>>
hostVars == <<files, active_model_id, loaded_model, slotLock, is_loading,
              pc, op, active_id, built, using, ret, cmdRet>>
dlVars == <<download_progress, temps, dlPc, dlId, dlDone, dlRet, dlFile,
            tempBytes, fileBytes>>
anVars == <<anPc, anText, anExtraction, anOut, anDeanon>>
rhVars == <<rhPc, rhTemplate, rhPii, rhResult, rhAnalysis>>
gnVars == <<gnPc, ctx_size, token_count, chunk_i, batch, decoded, n_cur, token_idx,
            output_bytes, rep_count, stop, len_at_stop, gnRet>>

vars == <<rtVars, chVars, dbVars, hostVars, dlVars, anVars, rhVars, gnVars>>

\* Option<T>: None is the empty sequence, Some(x) the one-element sequence.
None == <<>>
Some(x) == <<x>>

Ok(v) == [kind |-> "Ok", value |-> v]
Err(m) == [kind |-> "Err", value |-> m]

(***************************************************************************)
(* Personas (db.rs Persona): the four policy columns and the two model ids *)
(***************************************************************************)
\* preferred_backend strings a persona row can carry (a free TEXT column).
BackendStrings == {"nebius", "ollama", "hybrid", "Hybrid", "OLLAMA", "cloud"}

\* anonymization_mode strings a persona row can carry (a free TEXT column).
ModeStrings == {"none", "optional", "required", "Required", "strict"}

Personas ==
    [ preferred_backend : BackendStrings,
      anonymization_mode : ModeStrings,
      enable_local_anonymizer : BOOLEAN,
      preferred_model_id : {"cloud-model"},
      local_ollama_model : {None, Some("qwen3-1.7b")} ]

\* str::to_lowercase on the strings of this model (backend strings and words).
to_lowercase(s) ==
    CASE s = "Hybrid" -> "hybrid"
      [] s = "OLLAMA" -> "ollama"
      [] s = "What" -> "what"
      [] s = "Jansen" -> "jansen"
      [] OTHER -> s

\* AnonymizationMode::from_string: an exact, case-sensitive match.
AnonymizationMode_from_string(s) ==
    CASE s = "optional" -> "Optional"
      [] s = "required" -> "Required"
      [] OTHER -> "None"

FallbackNone == [kind |-> "None", reason |-> ""]
FallbackOllamaUnavailable == [kind |-> "OllamaUnavailable", reason |-> ""]
FallbackBlocked(r) == [kind |-> "Blocked", reason |-> r]

ModeName(m) ==
    CASE m = "Required" -> "required"
      [] m = "Optional" -> "optional"
      [] OTHER -> "none"

\* The content_mode computed up front (lines 172-179).
content_mode_of(anonymization_mode, backend_str) ==
    IF anonymization_mode = "Required" /\ backend_str = "hybrid"
    THEN "AttributesOnly"
    ELSE "FullText"

\* The "nebius" arm (lines 182-208).
nebius_arm(persona, anonymization_mode, enable_anonymization) ==
    IF anonymization_mode = "Required" /\ enable_anonymization
    THEN [ backend |-> "Nebius", anonymize |-> FALSE,
           model |-> Some(persona.preferred_model_id),
           reason |-> "Cloud direct with attributes-only (required privacy mode)",
           content_mode |-> "AttributesOnly",
           fallback |-> FallbackNone, is_safe |-> TRUE ]
    ELSE [ backend |-> "Nebius", anonymize |-> FALSE,
           model |-> Some(persona.preferred_model_id),
           reason |-> "Cloud direct (fastest)",
           content_mode |-> "FullText",
           fallback |-> FallbackNone, is_safe |-> TRUE ]

\* The "ollama" arm (lines 209-253).
ollama_arm(persona, anonymization_mode, ollama_available) ==
    IF ~ollama_available
    THEN IF anonymization_mode = "Required"
         THEN [ backend |-> "Ollama", anonymize |-> FALSE, model |-> None,
                reason |-> "BLOCKED: Ollama service required but unavailable",
                content_mode |-> "FullText",
                fallback |-> FallbackBlocked("Ollama service unavailable"),
                is_safe |-> FALSE ]
         ELSE [ backend |-> "Nebius", anonymize |-> FALSE,
                model |-> Some(persona.preferred_model_id),
                reason |-> "Fallback to cloud (Ollama unavailable)",
                content_mode |-> "FullText",
                fallback |-> FallbackOllamaUnavailable, is_safe |-> TRUE ]
    ELSE [ backend |-> "Ollama", anonymize |-> FALSE,
           model |-> IF persona.local_ollama_model = None
                     THEN Some("mistral:7b-instruct-q5_K_M")
                     ELSE persona.local_ollama_model,
           reason |-> "Local inference (maximum privacy)",
           content_mode |-> "FullText",
           fallback |-> FallbackNone, is_safe |-> TRUE ]

\* The guard of the hybrid arm's fallback branch (line 256).
hybrid_cannot_anonymize(ollama_available, enable_anonymization) ==
    ~ollama_available /\ enable_anonymization

\* The anonymize flag of normal hybrid operation (line 302).
hybrid_anonymize(enable_anonymization) == enable_anonymization

\* The content mode of the hybrid arm's optional fallback (line 280).
optional_fallback_content_mode == "AttributesOnly"

\* The "hybrid" | _ arm (lines 254-317).
hybrid_arm(persona, anonymization_mode, enable_anonymization, ollama_available, content_mode) ==
    IF hybrid_cannot_anonymize(ollama_available, enable_anonymization)
    THEN CASE anonymization_mode = "Required" ->
                [ backend |-> "Hybrid", anonymize |-> FALSE, model |-> None,
                  reason |-> "BLOCKED: Anonymization required but Ollama unavailable",
                  content_mode |-> "FullText",
                  fallback |-> FallbackBlocked("Cannot anonymize without Ollama"),
                  is_safe |-> FALSE ]
           [] anonymization_mode = "Optional" ->
                [ backend |-> "Nebius", anonymize |-> FALSE,
                  model |-> Some(persona.preferred_model_id),
                  reason |-> "Fallback to cloud with attributes-only (Ollama unavailable)",
                  content_mode |-> optional_fallback_content_mode,
                  fallback |-> FallbackOllamaUnavailable, is_safe |-> TRUE ]
           [] OTHER ->
                [ backend |-> "Nebius", anonymize |-> FALSE,
                  model |-> Some(persona.preferred_model_id),
                  reason |-> "Cloud direct (no anonymization configured)",
                  content_mode |-> "FullText",
                  fallback |-> FallbackNone, is_safe |-> TRUE ]
    ELSE [ backend |-> "Hybrid",
           anonymize |-> hybrid_anonymize(enable_anonymization),
           model |-> Some(persona.preferred_model_id),
           reason |-> "Hybrid: local anonymization + cloud API (mode: "
                        \o ModeName(anonymization_mode) \o ")",
           content_mode |-> content_mode,
           fallback |-> FallbackNone, is_safe |-> TRUE ]

\* `Ok(decision)` (line 327).
routing_result(decision) == Ok(decision)

\* make_routing_decision(persona, ollama_client, _): ollama_available is what
\* the probe at line 170 answered.  Always Ok(decision) (line 327).
make_routing_decision(persona, ollama_available) ==
    LET backend_str == to_lowercase(persona.preferred_backend)
        anonymization_mode == AnonymizationMode_from_string(persona.anonymization_mode)
        enable_anonymization == persona.enable_local_anonymizer
        content_mode == content_mode_of(anonymization_mode, backend_str)
    IN  routing_result(
            CASE backend_str = "nebius" ->
                   nebius_arm(persona, anonymization_mode, enable_anonymization)
              [] backend_str = "ollama" ->
                   ollama_arm(persona, anonymization_mode, ollama_available)
              [] OTHER ->
                   hybrid_arm(persona, anonymization_mode, enable_anonymization,
                              ollama_available, content_mode))

can_proceed(decision) == decision.is_safe

requires_attribute_extraction(decision) == decision.content_mode = "AttributesOnly"

\* validate_backend_config (lines 341-361).
validate_backend_config(backend, enable_anonymization, anonymization_mode) ==
    IF anonymization_mode = "Required" /\ ~enable_anonymization
    THEN Err("Cannot set anonymization_mode to 'required' when enable_local_anonymizer is false")
    ELSE IF backend = "Ollama" /\ ~enable_anonymization
    THEN Err("Ollama backend requires enable_local_anonymizer to be true")
    ELSE Ok("unit")

\* Whether determine_backend probes the Ollama service (line 132).
determine_backend_probes(persona) ==
    LET backend_str == to_lowercase(persona.preferred_backend)
    IN  /\ validate_backend_config(
              CASE backend_str = "ollama" -> "Ollama"
                [] backend_str = "hybrid" -> "Hybrid"
                [] OTHER -> "Nebius",
              persona.enable_local_anonymizer,
              AnonymizationMode_from_string(persona.anonymization_mode)).kind = "Ok"
        /\ \/ backend_str = "ollama"
           \/ backend_str = "hybrid" /\ persona.enable_local_anonymizer

\* determine_backend (lines 117-153); is_available is the probe's answer
\* when the probe is made.
determine_backend(persona, is_available) ==
    LET backend_str == to_lowercase(persona.preferred_backend)
        backend == CASE backend_str = "ollama" -> "Ollama"
                     [] backend_str = "hybrid" -> "Hybrid"
                     [] OTHER -> "Nebius"
        anonymization_mode == AnonymizationMode_from_string(persona.anonymization_mode)
        enable_anonymization == persona.enable_local_anonymizer
        valid == validate_backend_config(backend, enable_anonymization, anonymization_mode)
    IN  IF valid.kind = "Err" THEN valid
        ELSE IF /\ (backend = "Ollama" \/ (backend = "Hybrid" /\ enable_anonymization))
                /\ ~is_available
                /\ backend = "Ollama"
        THEN Err("Ollama service is required for local backend but is not running")
        ELSE Ok([ backend |-> backend,
                  enable_anonymization |-> enable_anonymization,
                  anonymization_mode |-> anonymization_mode,
                  ollama_model |-> persona.local_ollama_model ])

(***************************************************************************)
(* Attribute extraction (attribute_extraction.rs).  A text is a sequence   *)
(* of tokens: words, and the sentence terminators the code splits on.      *)
(***************************************************************************)
\* Words of the user texts: an interrogative, a surname and a word that
\* also occurs in the categorical renderings ("has mortgage").
Words == {"What", "Jansen", "mortgage"}

\* The characters extract_question_only splits on (line 255).
SentenceEnds == {".", "?", "!"}

\* Terminators occurring in the user texts.
Terminators == {".", "?"}

Tokens == Words \cup Terminators

MaxTextLen == 3

Texts == UNION { [1..n -> Tokens] : n \in 0..MaxTextLen }

Range(s) == { s[i] : i \in DOMAIN s }

\* question_indicators (line 253).
question_indicators ==
    {"?", "how", "what", "when", "where", "why", "can i", "should i", "do i", "is it"}

\* str::contains(hay, needle) on the lowercased words of Words: none of them
\* has an indicator as a proper substring, so containing one is being one.
str_contains(hay, needle) == hay = needle

\* text.split(|c| c == '.' || c == '?' || c == '!'): n terminators give n+1
\* pieces, the empty ones included; cur is the piece being collected.
RECURSIVE split_sentences(_, _)
split_sentences(text, cur) ==
    IF text = <<>> THEN <<cur>>
    ELSE IF Head(text) \in SentenceEnds
         THEN <<cur>> \o split_sentences(Tail(text), <<>>)
         ELSE split_sentences(Tail(text), Append(cur, Head(text)))

\* The filter of lines 258-265: the sentence, lowercased, contains an indicator.
looks_like_question(sentence) ==
    \E i \in DOMAIN sentence : \E ind \in question_indicators :
        str_contains(to_lowercase(sentence[i]), ind)

\* questions.join(". ") (line 271).
RECURSIVE join_sentences(_)
join_sentences(qs) ==
    IF qs = <<>> THEN <<>>
    ELSE IF Len(qs) = 1 THEN qs[1]
    ELSE qs[1] \o <<".">> \o join_sentences(Tail(qs))

\* extract_question_only (lines 251-273); trim() removes no token.
extract_question_only(text) ==
    LET sentences == split_sentences(text, <<>>)
        questions == SelectSeq(sentences, looks_like_question)
    IN  IF questions = <<>>
        THEN sentences[Len(sentences)]
        ELSE join_sentences(questions)

\* TaxAttributes::default() (derive(Default), lines 20-48).
DefaultAttributes ==
    [ income_bracket |-> None, employment_type |-> None,
      has_multiple_employers |-> None, receives_benefits |-> None,
      housing_situation |-> None, has_mortgage |-> None,
      has_savings_above_threshold |-> None, has_investments |-> None,
      filing_status |-> None, has_dependents |-> None,
      has_fiscal_partner |-> None, has_30_percent_ruling |-> None,
      is_entrepreneur |-> None, has_foreign_income |-> None,
      has_crypto_assets |-> None,
      relevant_boxes |-> <<>>, deduction_categories |-> <<>> ]

\* TaxAttributes records the local model's JSON can parse to.
SampleAttributes ==
    { DefaultAttributes,
      [ DefaultAttributes EXCEPT
          !.income_bracket = Some("Range40kTo70k"),
          !.employment_type = Some("Employee"),
          !.has_mortgage = Some(TRUE),
          !.has_investments = Some(FALSE),
          !.relevant_boxes = <<"Box 1">> ],
      [ income_bracket |-> Some("Above100k"), employment_type |-> Some("Director"),
        has_multiple_employers |-> Some(TRUE), receives_benefits |-> Some(TRUE),
        housing_situation |-> Some("Owner"), has_mortgage |-> Some(TRUE),
        has_savings_above_threshold |-> Some(TRUE), has_investments |-> Some(TRUE),
        filing_status |-> Some("Married"), has_dependents |-> Some(TRUE),
        has_fiscal_partner |-> Some(TRUE), has_30_percent_ruling |-> Some(TRUE),
        is_entrepreneur |-> Some(TRUE), has_foreign_income |-> Some(TRUE),
        has_crypto_assets |-> Some(TRUE),
        relevant_boxes |-> <<"Box 1", "Box 3">>,
        deduction_categories |-> <<"mortgage_interest", "healthcare">> ] }

\* `if let Some(ref v) = field { push(format!("label: {:?}", v)) }`
debug_part(label, field) ==
    IF field = None THEN <<>> ELSE <<label \o <<field[1]>>>>

\* `if field == Some(true) { push(words) }`
flag_part(field, words) ==
    IF field = Some(TRUE) THEN <<words>> ELSE <<>>

\* `if !vec.is_empty() { push(format!("label: {}", vec.join(", "))) }`
list_part(label, vec) ==
    IF vec = <<>> THEN <<>> ELSE <<label \o vec>>

\* context_parts of attributes_to_prompt (lines 171-234): a sequence of
\* parts, each a sequence of tokens.
context_parts(attributes) ==
    debug_part(<<"income", "bracket:">>, attributes.income_bracket)
    \o debug_part(<<"employment:">>, attributes.employment_type)
    \o flag_part(attributes.has_multiple_employers, <<"has", "multiple", "employers">>)
    \o flag_part(attributes.receives_benefits, <<"receives", "government", "benefits">>)
    \o debug_part(<<"housing:">>, attributes.housing_situation)
    \o flag_part(attributes.has_mortgage, <<"has", "mortgage">>)
    \o flag_part(attributes.has_savings_above_threshold,
                 <<"savings", "above", "Box", "3", "threshold">>)
    \o flag_part(attributes.has_investments, <<"has", "investments">>)
    \o debug_part(<<"filing", "status:">>, attributes.filing_status)
    \o flag_part(attributes.has_dependents, <<"has", "dependents">>)
    \o flag_part(attributes.has_fiscal_partner, <<"has", "fiscal", "partner">>)
    \o flag_part(attributes.has_30_percent_ruling, <<"has", "30%", "ruling">>)
    \o flag_part(attributes.is_entrepreneur, <<"is", "entrepreneur/ZZP">>)
    \o flag_part(attributes.has_foreign_income, <<"has", "foreign", "income">>)
    \o flag_part(attributes.has_crypto_assets, <<"has", "cryptocurrency", "assets">>)
    \o list_part(<<"relevant", "tax", "boxes:">>, attributes.relevant_boxes)
    \o list_part(<<"potential", "deductions:">>, attributes.deduction_categories)

\* context_parts.join("\n- ")
RECURSIVE join_parts(_)
join_parts(parts) ==
    IF parts = <<>> THEN <<>>
    ELSE <<"-">> \o Head(parts) \o join_parts(Tail(parts))

\* The question as attributes_to_prompt places it in the prompt (line 245).
prompt_question(question) == question

\* attributes_to_prompt (lines 170-247): the prompt as a token sequence.
attributes_to_prompt(attributes, question) ==
    LET parts == context_parts(attributes)
        context == IF parts = <<>>
                   THEN <<"a", "Dutch", "taxpayer">>
                   ELSE <<"a", "Dutch", "taxpayer", "with", "the", "following",
                          "profile:">> \o join_parts(parts)
    IN  <<"Context:">> \o context \o <<"Question:">> \o prompt_question(question)
        \o <<"Provide", "advice", "based", "on", "Dutch", "tax", "law",
             "(Belastingdienst", "rules).", "Be", "specific", "about", "which",
             "tax", "boxes", "apply", "and", "any", "relevant", "deductions",
             "or", "exemptions.">>

\* count_attributes (attribute_extraction_commands.rs lines 337-357).
count_attributes(attrs) ==
    Cardinality({ f \in { "income_bracket", "employment_type",
                           "has_multiple_employers", "receives_benefits",
                           "housing_situation", "has_mortgage",
                           "has_savings_above_threshold", "has_investments",
                           "filing_status", "has_dependents", "has_fiscal_partner",
                           "has_30_percent_ruling", "is_entrepreneur",
                           "has_foreign_income", "has_crypto_assets" } :
                  attrs[f] # None })
    + Len(attrs.relevant_boxes) + Len(attrs.deduction_categories)

\* What extractor.extract_attributes can return: the parsed record (the
\* default on a parse failure), or the error of generate_json.
ExtractionOutcomes ==
    { Ok(a) : a \in SampleAttributes } \cup { Err("Inference failed") }

(***************************************************************************)
(* process_chat_with_privacy (attribute_extraction_commands.rs 153-242)    *)
(***************************************************************************)
\* Personas of the chat requests: the recognised backend and mode strings.
ChatPersonas ==
    { p \in Personas :
        /\ p.preferred_backend \in {"nebius", "ollama", "hybrid"}
        /\ p.anonymization_mode \in {"none", "optional", "required"}
        /\ p.local_ollama_model = None }

backend_type_to_string(decision) ==
    CASE decision.backend = "Nebius" -> "nebius"
      [] decision.backend = "Ollama" -> "ollama"
      [] OTHER -> "hybrid"

\* request_is_blocked with the short-circuit left out (the variant C2 is
\* tested against).
request_is_blocked_never(decision) == FALSE

\* `if !decision.is_safe` (line 171).
request_is_blocked(decision) == ~decision.is_safe

\* The ProcessedChatRequest of a blocked request (lines 172-180, 188-196).
blocked_request(decision, info) ==
    [ prompt |-> <<>>, backend |-> backend_type_to_string(decision),
      model |-> decision.model, is_safe |-> FALSE,
      content_mode |-> "blocked", info |-> Some(info),
      attributes_count |-> None ]

\* The ProcessedChatRequest of the attributes-only path (lines 204-221).
attributes_only_request(decision, text, attributes) ==
    [ prompt |-> attributes_to_prompt(attributes, extract_question_only(text)),
      backend |-> backend_type_to_string(decision),
      model |-> decision.model, is_safe |-> TRUE,
      content_mode |-> "attributes_only",
      info |-> Some("Extracted attributes, sending privacy-safe prompt"),
      attributes_count |-> Some(count_attributes(attributes)) ]

\* The ProcessedChatRequest of the full-text path (lines 223-240).
full_text_request(decision, text) ==
    [ prompt |-> text, backend |-> backend_type_to_string(decision),
      model |-> decision.model, is_safe |-> TRUE,
      content_mode |-> "full_text",
      info |-> Some(IF decision.anonymize
                    THEN "Full text mode with anonymization enabled"
                    ELSE "Full text mode (direct to cloud)"),
      attributes_count |-> None ]

NoDecision ==
    [ backend |-> "Nebius", anonymize |-> FALSE, model |-> None, reason |-> "",
      content_mode |-> "FullText", fallback |-> FallbackNone, is_safe |-> TRUE ]

DefaultPersona ==
    [ preferred_backend |-> "nebius", anonymization_mode |-> "none",
      enable_local_anonymizer |-> FALSE, preferred_model_id |-> "cloud-model",
      local_ollama_model |-> None ]

InitChat ==
    /\ chPc = "idle"
    /\ chText = <<>>
    /\ chPersona = DefaultPersona
    /\ chDecision = NoDecision
    /\ chIo = <<>>
    /\ chIoAtDecision = 0
    /\ chResult = Ok("none")

\* The command is invoked with a text and a persona (lines 153-163).
ChInvoke ==
    /\ chPc = "idle"
    /\ \E text \in Texts, persona \in ChatPersonas :
         /\ chText' = text
         /\ chPersona' = persona
    /\ chPc' = "routing"
    /\ chDecision' = NoDecision
    /\ chIo' = <<>>
    /\ chIoAtDecision' = 0
    /\ chResult' = Ok("none")
    /\ UNCHANGED <<rtVars, dbVars, hostVars, dlVars, anVars, rhVars, gnVars>>

\* make_routing_decision(...).await.map_err(..)? (lines 166-168); its probe
\* is I/O.
ChRoute ==
    /\ chPc = "routing"
    /\ \E available \in BOOLEAN :
         LET r == make_routing_decision(chPersona, available)
         IN  IF r.kind = "Err"
             THEN chResult' = r /\ chPc' = "done" /\ UNCHANGED chDecision
             ELSE chDecision' = r.value /\ chPc' = "decided" /\ UNCHANGED chResult
    /\ chIo' = Append(chIo, "is_available")
    /\ chIoAtDecision' = Len(chIo) + 1
    /\ UNCHANGED <<chText, chPersona, rtVars, dbVars, hostVars, dlVars, anVars, rhVars, gnVars>>

\* The blocked short-circuit (lines 171-181).
ChBlocked ==
    /\ chPc = "decided"
    /\ request_is_blocked(chDecision)
    /\ chResult' = Ok(blocked_request(chDecision, chDecision.reason))
    /\ chPc' = "done"
    /\ UNCHANGED <<chText, chPersona, chDecision, chIo, chIoAtDecision,
                   rtVars, dbVars, hostVars, dlVars, anVars, rhVars, gnVars>>

\* AttributesOnly: the second availability probe (lines 185-197).
ChAttributesProbe ==
    /\ chPc = "decided"
    /\ ~request_is_blocked(chDecision)
    /\ chDecision.content_mode = "AttributesOnly"
    /\ chIo' = Append(chIo, "is_available")
    /\ \E available \in BOOLEAN :
         IF available
         THEN chPc' = "extract" /\ UNCHANGED chResult
         ELSE /\ chResult' = Ok(blocked_request(chDecision,
                    "Attributes-only mode requires local inference but it is unavailable"))
              /\ chPc' = "done"
    /\ UNCHANGED <<chText, chPersona, chDecision, chIoAtDecision,
                   rtVars, dbVars, hostVars, dlVars, anVars, rhVars, gnVars>>

\* AttributesOnly: local extraction, question, prompt (lines 199-221).
ChAttributesExtract ==
    /\ chPc = "extract"
    /\ chIo' = Append(chIo, "generate_json")
    /\ \E outcome \in ExtractionOutcomes :
         chResult' = IF outcome.kind = "Err"
                     THEN Err("Attribute extraction failed")
                     ELSE Ok(attributes_only_request(chDecision, chText, outcome.value))
    /\ chPc' = "done"
    /\ UNCHANGED <<chText, chPersona, chDecision, chIoAtDecision,
                   rtVars, dbVars, hostVars, dlVars, anVars, rhVars, gnVars>>

\* FullText (lines 223-240).
ChFullText ==
    /\ chPc = "decided"
    /\ ~request_is_blocked(chDecision)
    /\ chDecision.content_mode = "FullText"
    /\ chResult' = Ok(full_text_request(chDecision, chText))
    /\ chPc' = "done"
    /\ UNCHANGED <<chText, chPersona, chDecision, chIo, chIoAtDecision,
                   rtVars, dbVars, hostVars, dlVars, anVars, rhVars, gnVars>>

\* The handler has returned: its locals are gone, the next invocation may start.
ChReturn ==
    /\ chPc = "done"
    /\ chPc' = "idle"
    /\ chText' = <<>>
    /\ chPersona' = DefaultPersona
    /\ chDecision' = NoDecision
    /\ chIo' = <<>>
    /\ chIoAtDecision' = 0
    /\ chResult' = Ok("none")
    /\ UNCHANGED <<rtVars, dbVars, hostVars, dlVars, anVars, rhVars, gnVars>>

NextChat ==
    \/ ChInvoke
    \/ ChRoute
    \/ ChBlocked
    \/ ChAttributesProbe
    \/ ChAttributesExtract
    \/ ChFullText
    \/ ChReturn

(***************************************************************************)
(* The router's operations as actions                                      *)
(***************************************************************************)
InitRouter ==
    /\ rtOp = "none"
    /\ rtPersona = DefaultPersona
    /\ rtAvailable = None
    /\ rtResult = Ok("none")

RtMakeRoutingDecision ==
    /\ \E persona \in Personas, available \in BOOLEAN :
         /\ rtPersona' = persona
         /\ rtAvailable' = Some(available)
         /\ rtResult' = make_routing_decision(persona, available)
    /\ rtOp' = "make_routing_decision"
    /\ UNCHANGED <<chVars, dbVars, hostVars, dlVars, anVars, rhVars, gnVars>>

RtDetermineBackend ==
    /\ \E persona \in Personas, available \in BOOLEAN :
         /\ rtPersona' = persona
         /\ rtAvailable' = IF determine_backend_probes(persona)
                           THEN Some(available) ELSE None
         /\ rtResult' = determine_backend(persona, available)
    /\ rtOp' = "determine_backend"
    /\ UNCHANGED <<chVars, dbVars, hostVars, dlVars, anVars, rhVars, gnVars>>

NextRouter ==
    \/ RtMakeRoutingDecision
    \/ RtDetermineBackend

(***************************************************************************)
(* The persona store (db.rs 447-528, commands.rs 74-90)                    *)
(***************************************************************************)
NumPersonaIds == 2

PersonaIds == 1..NumPersonaIds

\* The policy columns the store is called with.
StorePolicies ==
    { p \in Personas :
        /\ p.preferred_backend \in {"nebius", "ollama", "hybrid"}
        /\ p.anonymization_mode \in {"none", "optional", "required"}
        /\ p.local_ollama_model = None }

\* A persona as passed to the store: its id, is_built_in and policy columns.
StoreRows == [ id : PersonaIds, is_built_in : BOOLEAN, policy : StorePolicies ]

\* create_persona (db.rs 448-471): a plain INSERT; the primary key rejects a
\* second row with the same id.  Returns the table and the result.
create_persona(table, persona) ==
    IF table[persona.id] # None
    THEN [ table |-> table, result |-> Err("UNIQUE constraint failed: personas.id") ]
    ELSE [ table |-> [table EXCEPT ![persona.id] = Some(persona)],
           result |-> Ok("unit") ]

\* update_persona (db.rs 508-528): UPDATE ... WHERE id = ?; is_built_in is
\* not among the columns it sets.
update_persona(table, persona) ==
    IF table[persona.id] = None
    THEN [ table |-> table, result |-> Ok("unit") ]
    ELSE [ table |-> [table EXCEPT ![persona.id] =
                        Some([table[persona.id][1] EXCEPT !.policy = persona.policy])],
           result |-> Ok("unit") ]

\* delete_persona (db.rs 502-506): built-in personas stay.
delete_persona(table, id) ==
    IF table[id] # None /\ ~table[id][1].is_built_in
    THEN [ table |-> [table EXCEPT ![id] = None], result |-> Ok("unit") ]
    ELSE [ table |-> table, result |-> Ok("unit") ]

InitStore ==
    /\ personas = [ id \in PersonaIds |-> None ]
    /\ dbResult = Ok("none")

DbCreatePersona ==
    /\ \E persona \in StoreRows :
         LET r == create_persona(personas, persona)
         IN  personas' = r.table /\ dbResult' = r.result
    /\ UNCHANGED <<rtVars, chVars, hostVars, dlVars, anVars, rhVars, gnVars>>

DbUpdatePersona ==
    /\ \E persona \in StoreRows :
         LET r == update_persona(personas, persona)
         IN  personas' = r.table /\ dbResult' = r.result
    /\ UNCHANGED <<rtVars, chVars, hostVars, dlVars, anVars, rhVars, gnVars>>

DbDeletePersona ==
    /\ \E id \in PersonaIds :
         LET r == delete_persona(personas, id)
         IN  personas' = r.table /\ dbResult' = r.result
    /\ UNCHANGED <<rtVars, chVars, hostVars, dlVars, anVars, rhVars, gnVars>>

NextStore ==
    \/ DbCreatePersona
    \/ DbUpdatePersona
    \/ DbDeletePersona

(***************************************************************************)
(* The local inference host (llama_backend.rs)                             *)
(***************************************************************************)
\* local_model_registry() (lines 43-98): the ids, smallest first.
Registry == <<"qwen3-0.6b", "qwen3-1.7b", "qwen3-4b", "qwen3-8b">>

RegistryIds == Range(Registry)

\* The model ids whose files the environment puts on disk and the user
\* selects: the first NumModels entries of the registry.
NumModels == 2

HostModels == { Registry[i] : i \in 1..NumModels }

\* Ids the commands are called with: registered ones and an unknown one.
CommandIds == HostModels \cup {"gpt-4"}

NumTasks == 2

Tasks == 1..NumTasks

\* LlamaCppBackend::new (lines 149-157): the first downloaded model of the
\* registry, or qwen3-1.7b.
initial_model(onDisk) ==
    IF \E i \in DOMAIN Registry : Registry[i] \in onDisk
    THEN Registry[CHOOSE i \in DOMAIN Registry :
                    /\ Registry[i] \in onDisk
                    /\ \A j \in 1..(i-1) : Registry[j] \notin onDisk]
    ELSE "qwen3-1.7b"

\* is_available (lines 636-639): some registered model's file is on disk.
is_available(onDisk) == \E m \in RegistryIds : m \in onDisk

\* The model instances in memory: the one in the slot and every LoadedModel
\* a load has built and not yet moved into the slot.
Resident ==
    (IF loaded_model = None THEN 0 ELSE 1)
    + Cardinality({ t \in Tasks : built[t] # None })

\* The host after LlamaCppBackend::new with the files onDisk in models_dir.
HostInit(onDisk) ==
    /\ files = onDisk
    /\ active_model_id = initial_model(onDisk)
    /\ loaded_model = None
    /\ slotLock = None
    /\ is_loading = FALSE
    /\ pc = [ t \in Tasks |-> "idle" ]
    /\ op = [ t \in Tasks |-> "none" ]
    /\ active_id = [ t \in Tasks |-> "" ]
    /\ built = [ t \in Tasks |-> None ]
    /\ using = [ t \in Tasks |-> None ]
    /\ ret = [ t \in Tasks |-> Ok("none") ]
    /\ cmdRet = Ok("none")

InitHost == \E onDisk \in SUBSET HostModels : HostInit(onDisk)

\* set_active_model (lines 199-210).
set_active_model(active, model_id) ==
    IF model_id \notin RegistryIds
    THEN [ active |-> active, result |-> Err("ModelNotFound") ]
    ELSE [ active |-> model_id, result |-> Ok("unit") ]

\* A call set_active_model(model_id).
SetActiveModelCall(model_id) ==
    /\ LET r == set_active_model(active_model_id, model_id)
       IN  active_model_id' = r.active /\ cmdRet' = r.result
    /\ UNCHANGED <<files, loaded_model, slotLock, is_loading, pc, op, active_id,
                   built, using, ret, rtVars, chVars, dbVars, dlVars, anVars, rhVars, gnVars>>

SetActiveModel == \E model_id \in CommandIds : SetActiveModelCall(model_id)

\* delete_model (lines 295-308).
delete_model(onDisk, model_id) ==
    IF model_id \notin RegistryIds
    THEN [ files |-> onDisk, result |-> Err("ModelNotFound") ]
    ELSE [ files |-> onDisk \ {model_id}, result |-> Ok("unit") ]

\* A call delete_model(model_id).
DeleteModelCall(model_id) ==
    /\ LET r == delete_model(files, model_id)
       IN  files' = r.files /\ cmdRet' = r.result
    /\ IF model_id \in files
       THEN /\ fileBytes' = [fileBytes EXCEPT ![model_id] = {}]
            /\ dlFile' = [ d \in DOMAIN dlFile |->
                             IF dlId[d] = model_id /\ dlFile[d] = "final"
                             THEN "unlinked" ELSE dlFile[d] ]
       ELSE UNCHANGED <<fileBytes, dlFile>>
    /\ UNCHANGED <<active_model_id, loaded_model, slotLock, is_loading, pc, op,
                   active_id, built, using, ret, download_progress, temps, dlPc,
                   dlId, dlDone, dlRet, tempBytes, rtVars, chVars, dbVars, anVars, rhVars, gnVars>>

DeleteModel == \E model_id \in CommandIds : DeleteModelCall(model_id)

\* The call returns result r to the caller of task t.
Return(t, r) ==
    /\ pc' = [pc EXCEPT ![t] = "idle"]
    /\ ret' = [ret EXCEPT ![t] = r]

\* load_model_if_needed returned Ok: preload returns it, run_inference goes
\* on to its blocking worker (line 423).
LoadOk(t) ==
    IF op[t] = "preload"
    THEN Return(t, Ok("unit"))
    ELSE pc' = [pc EXCEPT ![t] = "infer_lock"] /\ UNCHANGED ret

\* generate / generate_json (lines 641-647) enter run_inference.
Generate(t) ==
    /\ pc[t] = "idle"
    /\ op' = [op EXCEPT ![t] = "generate"]
    /\ pc' = [pc EXCEPT ![t] = "read_active"]
    /\ ret' = [ret EXCEPT ![t] = Ok("none")]
    /\ UNCHANGED <<files, active_model_id, loaded_model, slotLock, is_loading,
                   active_id, built, using, cmdRet, rtVars, chVars, dbVars, dlVars, anVars, rhVars, gnVars>>

\* preload (lines 673-679).
Preload(t) ==
    /\ pc[t] = "idle"
    /\ op' = [op EXCEPT ![t] = "preload"]
    /\ IF is_available(files)
       THEN /\ pc' = [pc EXCEPT ![t] = "read_active"]
            /\ ret' = [ret EXCEPT ![t] = Ok("none")]
       ELSE Return(t, Ok("unit"))
    /\ UNCHANGED <<files, active_model_id, loaded_model, slotLock, is_loading,
                   active_id, built, using, cmdRet, rtVars, chVars, dbVars, dlVars, anVars, rhVars, gnVars>>

\* load_model_if_needed, line 319: read the active id.
ReadActive(t) ==
    /\ pc[t] = "read_active"
    /\ active_id' = [active_id EXCEPT ![t] = active_model_id]
    /\ pc' = [pc EXCEPT ![t] = "quick_check"]
    /\ UNCHANGED <<files, active_model_id, loaded_model, slotLock, is_loading,
                   op, built, using, ret, cmdRet, rtVars, chVars, dbVars, dlVars, anVars, rhVars, gnVars>>

\* Whether the slot holds the model the caller wants (lines 324-325, 340).
slot_has(slot, id) == slot = Some(id)

\* Lines 322-330: the quick check under the slot lock.
QuickCheck(t) ==
    /\ pc[t] = "quick_check"
    /\ slotLock = None
    /\ IF slot_has(loaded_model, active_id[t])
       THEN LoadOk(t)
       ELSE pc' = [pc EXCEPT ![t] = "cas1"] /\ UNCHANGED ret
    /\ UNCHANGED <<files, active_model_id, loaded_model, slotLock, is_loading,
                   op, active_id, built, using, cmdRet, rtVars, chVars, dbVars, dlVars, anVars, rhVars, gnVars>>

\* Line 334 with the flag stored instead of compared and exchanged (the
\* variant C17 is checked against).
Cas1_store(t) ==
    /\ pc[t] = "cas1"
    /\ pc' = [pc EXCEPT ![t] = "do_load"]
    /\ is_loading' = TRUE
    /\ UNCHANGED <<files, active_model_id, loaded_model, slotLock, op, active_id,
                   built, using, ret, cmdRet, rtVars, chVars, dbVars, dlVars, anVars, rhVars, gnVars>>

\* Line 334: compare_exchange(false, true).
Cas1(t) ==
    /\ pc[t] = "cas1"
    /\ IF is_loading
       THEN pc' = [pc EXCEPT ![t] = "wait"] /\ UNCHANGED is_loading
       ELSE pc' = [pc EXCEPT ![t] = "do_load"] /\ is_loading' = TRUE
    /\ UNCHANGED <<files, active_model_id, loaded_model, slotLock, op, active_id,
                   built, using, ret, cmdRet, rtVars, chVars, dbVars, dlVars, anVars, rhVars, gnVars>>

\* Lines 336-338: after a sleep the flag is found clear (while it is set the
\* iteration changes nothing).
WaitPoll(t) ==
    /\ pc[t] = "wait"
    /\ ~is_loading
    /\ pc' = [pc EXCEPT ![t] = "wait_check"]
    /\ UNCHANGED <<files, active_model_id, loaded_model, slotLock, is_loading,
                   op, active_id, built, using, ret, cmdRet, rtVars, chVars, dbVars, dlVars, anVars, rhVars, gnVars>>

\* Lines 339-343: the check under the slot lock after the wait.
WaitCheck(t) ==
    /\ pc[t] = "wait_check"
    /\ slotLock = None
    /\ IF slot_has(loaded_model, active_id[t])
       THEN LoadOk(t)
       ELSE pc' = [pc EXCEPT ![t] = "cas2"] /\ UNCHANGED ret
    /\ UNCHANGED <<files, active_model_id, loaded_model, slotLock, is_loading,
                   op, active_id, built, using, cmdRet, rtVars, chVars, dbVars, dlVars, anVars, rhVars, gnVars>>

\* Lines 346-348: the second compare_exchange; losing it is an error.
Cas2(t) ==
    /\ pc[t] = "cas2"
    /\ IF is_loading
       THEN Return(t, Err("ModelLoadFailed: Model is still loading"))
            /\ UNCHANGED is_loading
       ELSE /\ pc' = [pc EXCEPT ![t] = "do_load"]
            /\ is_loading' = TRUE
            /\ UNCHANGED ret
    /\ UNCHANGED <<files, active_model_id, loaded_model, slotLock, op, active_id,
                   built, using, cmdRet, rtVars, chVars, dbVars, dlVars, anVars, rhVars, gnVars>>

\* do_load_model, lines 357-365: the registry lookup and the file check.
DoLoadCheck(t) ==
    /\ pc[t] = "do_load"
    /\ IF active_id[t] \notin RegistryIds
       THEN ret' = [ret EXCEPT ![t] = Err("ModelNotFound: Unknown model")]
            /\ pc' = [pc EXCEPT ![t] = "load_done"]
       ELSE IF active_id[t] \notin files
       THEN ret' = [ret EXCEPT ![t] = Err("ModelNotFound: Model file not found")]
            /\ pc' = [pc EXCEPT ![t] = "load_done"]
       ELSE pc' = [pc EXCEPT ![t] = "loading"] /\ UNCHANGED ret
    /\ UNCHANGED <<files, active_model_id, loaded_model, slotLock, is_loading,
                   op, active_id, built, using, cmdRet, rtVars, chVars, dbVars, dlVars, anVars, rhVars, gnVars>>

\* Lines 382-405: the blocking load builds the LoadedModel, or fails.
LoadFile(t) ==
    /\ pc[t] = "loading"
    /\ \/ /\ active_id[t] \in files
          /\ built' = [built EXCEPT ![t] = Some(active_id[t])]
          /\ pc' = [pc EXCEPT ![t] = "store_slot"]
          /\ UNCHANGED ret
       \/ /\ ret' = [ret EXCEPT ![t] = Err("ModelLoadFailed: Failed to load model")]
          /\ pc' = [pc EXCEPT ![t] = "load_done"]
          /\ UNCHANGED built
    /\ UNCHANGED <<files, active_model_id, loaded_model, slotLock, is_loading,
                   op, active_id, using, cmdRet, rtVars, chVars, dbVars, dlVars, anVars, rhVars, gnVars>>

\* Lines 407-409: the new model replaces (and thereby drops) the old one.
StoreSlot(t) ==
    /\ pc[t] = "store_slot"
    /\ slotLock = None
    /\ loaded_model' = built[t]
    /\ built' = [built EXCEPT ![t] = None]
    /\ ret' = [ret EXCEPT ![t] = Ok("loaded")]
    /\ pc' = [pc EXCEPT ![t] = "load_done"]
    /\ UNCHANGED <<files, active_model_id, slotLock, is_loading, op, active_id,
                   using, cmdRet, rtVars, chVars, dbVars, dlVars, anVars, rhVars, gnVars>>

\* Lines 352-353: clear the flag and return do_load_model's result.
LoadDone(t) ==
    /\ pc[t] = "load_done"
    /\ is_loading' = FALSE
    /\ IF ret[t].kind = "Err"
       THEN Return(t, ret[t])
       ELSE LoadOk(t)
    /\ UNCHANGED <<files, active_model_id, loaded_model, slotLock, op, active_id,
                   built, using, cmdRet, rtVars, chVars, dbVars, dlVars, anVars, rhVars, gnVars>>

\* run_inference, lines 423-430: the worker takes the slot lock and keeps the
\* guard; an empty slot is an error.
InferLock(t) ==
    /\ pc[t] = "infer_lock"
    /\ slotLock = None
    /\ IF loaded_model = None
       THEN Return(t, Err("InferenceFailed: Model not loaded"))
            /\ UNCHANGED <<slotLock, using>>
       ELSE /\ slotLock' = Some(t)
            /\ using' = [using EXCEPT ![t] = loaded_model]
            /\ pc' = [pc EXCEPT ![t] = "decoding"]
            /\ UNCHANGED ret
    /\ UNCHANGED <<files, active_model_id, loaded_model, is_loading, op,
                   active_id, built, cmdRet, rtVars, chVars, dbVars, dlVars, anVars, rhVars, gnVars>>

\* Lines 432-600: prefill and sampling end (with the text or an error); the
\* guard is dropped with the closure.
DecodeDone(t) ==
    /\ pc[t] = "decoding"
    /\ slotLock' = None
    /\ using' = [using EXCEPT ![t] = None]
    /\ \E r \in {Ok("text"), Err("InferenceFailed")} : Return(t, r)
    /\ UNCHANGED <<files, active_model_id, loaded_model, is_loading, op,
                   active_id, built, cmdRet, rtVars, chVars, dbVars, dlVars, anVars, rhVars, gnVars>>

\* The points at which load_model_if_needed and do_load_model are suspended
\* in an await: the locks of lines 319, 323, 339 and 407 and the sleep of
\* line 337.  (The await of the blocking load, line 404, is left out: there
\* the worker thread outlives the caller.)
AwaitPoints == {"read_active", "quick_check", "wait", "wait_check", "store_slot"}

\* The caller of generate or preload drops the future while it is suspended
\* at pc[t]: nothing after that await runs, and what the future owned (the
\* LoadedModel just built) is dropped with it.
Cancel(t) ==
    /\ pc[t] \in AwaitPoints
    /\ pc' = [pc EXCEPT ![t] = "idle"]
    /\ built' = [built EXCEPT ![t] = None]
    /\ ret' = [ret EXCEPT ![t] = Err("Cancelled")]
    /\ UNCHANGED <<files, active_model_id, loaded_model, slotLock, is_loading, op,
                   active_id, using, cmdRet, rtVars, chVars, dbVars, dlVars, anVars, rhVars, gnVars>>

NextHost ==
    \/ SetActiveModel
    \/ DeleteModel
    \/ \E t \in Tasks :
         \/ Generate(t)
         \/ Preload(t)
         \/ ReadActive(t)
         \/ QuickCheck(t)
         \/ Cas1(t)
         \/ WaitPoll(t)
         \/ WaitCheck(t)
         \/ Cas2(t)
         \/ DoLoadCheck(t)
         \/ LoadFile(t)
         \/ StoreSlot(t)
         \/ LoadDone(t)
         \/ InferLock(t)
         \/ DecodeDone(t)

(***************************************************************************)
(* Model download (llama_backend.rs 213-312) and ensure_model (649-667)    *)
(***************************************************************************)
\* The filenames of local_model_registry(), in registry order.
Filenames ==
    <<"Qwen3-0.6B-Q4_K_M.gguf", "Qwen3-1.7B-Q4_K_M.gguf",
      "Qwen3-4B-Q4_K_M.gguf", "Qwen3-8B-Q4_K_M.gguf">>

\* Concurrent callers of download_model_by_id / ensure_model.
NumDownloads == 2

Downloads == 1..NumDownloads

\* The response body arrives in this many reads of the loop (lines 261-275).
NumChunks == 2

\* The chunks of a completely written model file.
AllChunks == 1..NumChunks

\* Names ensure_model is called with: ids, an unknown id, the empty string
\* and a registry filename.
DownloadIds == {Registry[1], "gpt-4"}

EnsureNames == DownloadIds \cup {"", Filenames[1]}

\* Line 273: ((downloaded / total_size) * 100).min(99) as u8.
percent(downloaded, total_size) ==
    LET pct == (downloaded * 100) \div total_size
    IN  IF pct > 99 THEN 99 ELSE pct

\* get_download_progress (lines 310-312).
get_download_progress == download_progress

\* is_file_downloaded (lines 172-175) and lines 219-220: the final path
\* exists and holds more than 1,000,000 bytes (a chunk is larger than that).
is_file_downloaded(model_id) == model_id \in files /\ fileBytes[model_id] # {}

InitDownload ==
    /\ download_progress = 0
    /\ temps = {}
    /\ dlPc = [ d \in Downloads |-> "idle" ]
    /\ dlId = [ d \in Downloads |-> "" ]
    /\ dlDone = [ d \in Downloads |-> 0 ]
    /\ dlRet = [ d \in Downloads |-> Ok("none") ]
    /\ dlFile = [ d \in Downloads |-> "none" ]
    /\ tempBytes = [ m \in RegistryIds |-> {} ]
    /\ fileBytes = [ m \in RegistryIds |-> IF m \in files THEN AllChunks ELSE {} ]

\* The call of download task d returns r; its file handle is closed.
DlReturn(d, r) ==
    /\ dlPc' = [dlPc EXCEPT ![d] = "idle"]
    /\ dlId' = [dlId EXCEPT ![d] = ""]
    /\ dlDone' = [dlDone EXCEPT ![d] = 0]
    /\ dlRet' = [dlRet EXCEPT ![d] = r]
    /\ dlFile' = [dlFile EXCEPT ![d] = "none"]

\* download_model_by_id, lines 214-230: the registry lookup, the
\* already-downloaded check and the reset of the progress counter.
download_start(d, model_id) ==
    IF model_id \notin RegistryIds
    THEN DlReturn(d, Err("ModelNotFound")) /\ UNCHANGED download_progress
    ELSE IF is_file_downloaded(model_id)
    THEN DlReturn(d, Ok("unit")) /\ UNCHANGED download_progress
    ELSE /\ download_progress' = 0
         /\ dlPc' = [dlPc EXCEPT ![d] = "request"]
         /\ dlId' = [dlId EXCEPT ![d] = model_id]
         /\ dlDone' = [dlDone EXCEPT ![d] = 0]
         /\ dlRet' = [dlRet EXCEPT ![d] = Ok("none")]
         /\ UNCHANGED dlFile

\* A call download_model_by_id(model_id) by task d.
DownloadCall(d, model_id) ==
    /\ dlPc[d] = "idle"
    /\ download_start(d, model_id)
    /\ UNCHANGED <<temps, tempBytes, fileBytes, hostVars, rtVars, chVars, dbVars, anVars, rhVars, gnVars>>

DownloadModelById(d) == \E model_id \in DownloadIds : DownloadCall(d, model_id)

\* ensure_model, lines 650-653: the registry entry whose id or filename is
\* model_name (0 when there is none).
find_model(model_name) ==
    IF \E i \in DOMAIN Registry : Registry[i] = model_name \/ Filenames[i] = model_name
    THEN CHOOSE i \in DOMAIN Registry :
            /\ Registry[i] = model_name \/ Filenames[i] = model_name
            /\ \A j \in 1..(i-1) : Registry[j] # model_name /\ Filenames[j] # model_name
    ELSE 0

\* A call ensure_model(model_name) by task d (lines 649-667).
EnsureCall(d, model_name) ==
    /\ dlPc[d] = "idle"
    /\ LET i == find_model(model_name)
       IN  IF i # 0
           THEN IF is_file_downloaded(Registry[i])
                THEN DlReturn(d, Ok("unit")) /\ UNCHANGED download_progress
                ELSE download_start(d, Registry[i])
           ELSE IF model_name = "" \/ model_name = "Qwen3-8B-Q4_K_M.gguf"
                THEN download_start(d, "qwen3-8b")
                ELSE DlReturn(d, Err("ModelNotFound")) /\ UNCHANGED download_progress
    /\ UNCHANGED <<temps, tempBytes, fileBytes, hostVars, rtVars, chVars, dbVars, anVars, rhVars, gnVars>>

EnsureModel(d) == \E model_name \in EnsureNames : EnsureCall(d, model_name)

\* Lines 233-255: the HTTP request fails, or succeeds and File::create opens
\* the temp path: a new empty file, or the existing one truncated.
DlRequest(d) ==
    /\ dlPc[d] = "request"
    /\ \/ /\ temps' = temps \cup {dlId[d]}
          /\ tempBytes' = [tempBytes EXCEPT ![dlId[d]] = {}]
          /\ dlFile' = [dlFile EXCEPT ![d] = "temp"]
          /\ dlPc' = [dlPc EXCEPT ![d] = "streaming"]
          /\ UNCHANGED <<dlId, dlDone, dlRet>>
       \/ /\ DlReturn(d, Err("DownloadFailed"))
          /\ UNCHANGED <<temps, tempBytes>>
    /\ UNCHANGED <<download_progress, fileBytes, hostVars, rtVars, chVars, dbVars, anVars, rhVars, gnVars>>

\* file.write_all (line 268) of chunk k by task d: the chunk lands at its
\* offset in the file the handle refers to, wherever that file sits now.
write_chunk(d, k) ==
    CASE dlFile[d] = "temp" ->
           /\ tempBytes' = [tempBytes EXCEPT ![dlId[d]] = @ \cup {k}]
           /\ UNCHANGED fileBytes
      [] dlFile[d] = "final" ->
           /\ fileBytes' = [fileBytes EXCEPT ![dlId[d]] = @ \cup {k}]
           /\ UNCHANGED tempBytes
      [] OTHER -> UNCHANGED <<tempBytes, fileBytes>>

\* Lines 261-275: one iteration of the read loop: a chunk is written and the
\* percentage stored, or the body has ended, or the read fails.
DlRead(d) ==
    /\ dlPc[d] = "streaming"
    /\ \/ /\ dlDone[d] < NumChunks
          /\ dlDone' = [dlDone EXCEPT ![d] = dlDone[d] + 1]
          /\ write_chunk(d, dlDone[d] + 1)
          /\ download_progress' = percent(dlDone[d] + 1, NumChunks)
          /\ UNCHANGED <<dlPc, dlId, dlRet, dlFile>>
       \/ /\ dlDone[d] = NumChunks
          /\ dlPc' = [dlPc EXCEPT ![d] = "rename"]
          /\ UNCHANGED <<download_progress, dlId, dlDone, dlRet, dlFile, tempBytes, fileBytes>>
       \/ /\ DlReturn(d, Err("DownloadFailed"))
          /\ UNCHANGED <<download_progress, tempBytes, fileBytes>>
    /\ UNCHANGED <<temps, hostVars, rtVars, chVars, dbVars, anVars, rhVars, gnVars>>

\* Lines 280-282: rename the temp file to the final path, replacing what was
\* there; every handle open on the renamed file follows it.  The rename fails
\* when the temp file is gone.
DlRename(d) ==
    /\ dlPc[d] = "rename"
    /\ IF dlId[d] \in temps
       THEN /\ temps' = temps \ {dlId[d]}
            /\ files' = files \cup {dlId[d]}
            /\ fileBytes' = [fileBytes EXCEPT ![dlId[d]] = tempBytes[dlId[d]]]
            /\ tempBytes' = [tempBytes EXCEPT ![dlId[d]] = {}]
            /\ dlFile' = [ e \in Downloads |->
                             IF dlId[e] # dlId[d] THEN dlFile[e]
                             ELSE IF dlFile[e] = "temp" THEN "final"
                             ELSE IF dlFile[e] = "final" THEN "unlinked"
                             ELSE dlFile[e] ]
            /\ dlPc' = [dlPc EXCEPT ![d] = "renamed"]
            /\ UNCHANGED <<dlId, dlDone, dlRet>>
       ELSE /\ DlReturn(d, Err("DownloadFailed"))
            /\ UNCHANGED <<temps, files, tempBytes, fileBytes>>
    /\ UNCHANGED <<download_progress, active_model_id, loaded_model, slotLock,
                   is_loading, pc, op, active_id, built, using, ret, cmdRet,
                   rtVars, chVars, dbVars, anVars, rhVars, gnVars>>

\* Lines 284-291: store 100 and return Ok.
DlComplete(d) ==
    /\ dlPc[d] = "renamed"
    /\ download_progress' = 100
    /\ DlReturn(d, Ok("unit"))
    /\ UNCHANGED <<temps, tempBytes, fileBytes, hostVars, rtVars, chVars, dbVars, anVars, rhVars, gnVars>>

NextDownload ==
    \/ SetActiveModel
    \/ DeleteModel
    \/ \E d \in Downloads :
         \/ DownloadModelById(d)
         \/ EnsureModel(d)
         \/ DlRequest(d)
         \/ DlRead(d)
         \/ DlRename(d)
         \/ DlComplete(d)

(***************************************************************************)
(* The anonymization service (anonymization.rs)                            *)
(***************************************************************************)
\* DEFAULT_CONFIDENCE_THRESHOLD (line 9), in tenths.
DEFAULT_CONFIDENCE_THRESHOLD == 7

\* Confidence scores an extraction carries, in tenths: below, at and above
\* the threshold.
Confidences ==
    { DEFAULT_CONFIDENCE_THRESHOLD - 1, DEFAULT_CONFIDENCE_THRESHOLD,
      DEFAULT_CONFIDENCE_THRESHOLD + 1 }

\* The fields of PIIExtraction in the order anonymize_text processes them
\* (lines 83-151).
Categories == <<"bsn", "name", "surname", "phone", "address", "email", "income">>

CategorySet == Range(Categories)

\* Tokens matched by bsn_pattern, iban_pattern and euro_amount_pattern
\* (lines 33, 37, 43).
BsnTokens == {"123456789"}

IbanTokens == {"NL91ABNA0417164300"}

EuroTokens == {"E52.000"}

\* Tokens of the texts given to anonymize_text.
AnTokens == {"Jan"} \cup BsnTokens \cup IbanTokens \cup EuroTokens

MaxAnonLen == 2

AnTexts == UNION { [1..n -> AnTokens] : n \in 0..MaxAnonLen }

\* Values the extraction reports for a field: the empty string, a name and a
\* number of the text.
PiiValues == { <<>>, <<"Jan">>, <<"123456789">> }

\* A field the extraction does not report (PIIConfidenceScores::default).
AbsentField == [value |-> None, confidence |-> 0]

\* A field the extraction reports, or leaves null with a confidence set.
ReportedFields ==
    { [value |-> Some(v), confidence |-> c] : v \in PiiValues, c \in Confidences }
    \cup { [value |-> None, confidence |-> DEFAULT_CONFIDENCE_THRESHOLD + 1] }

\* At most this many fields of an extraction are reported.
MaxReported == 2

PIIExtractions ==
    { [ c \in CategorySet |-> IF c \in DOMAIN f THEN f[c] ELSE AbsentField ] :
        f \in UNION { [S -> ReportedFields] :
                        S \in { T \in SUBSET CategorySet : Cardinality(T) <= MaxReported } } }

\* Uuid::new_v4().to_string(): the n-th fresh identifier of a call.
Uuids == <<"u1", "u2", "u3", "u4", "u5", "u6", "u7", "u8", "u9", "u10">>

\* str::to_uppercase on category names.
category_to_uppercase(c) ==
    CASE c = "bsn" -> "BSN"
      [] c = "name" -> "NAME"
      [] c = "surname" -> "SURNAME"
      [] c = "phone" -> "PHONE"
      [] c = "address" -> "ADDRESS"
      [] c = "email" -> "EMAIL"
      [] c = "income" -> "INCOME"
      [] c = "bsn_regex" -> "BSN_REGEX"
      [] c = "iban_regex" -> "IBAN_REGEX"
      [] c = "amount_regex" -> "AMOUNT_REGEX"
      [] OTHER -> c

\* format!("[PLACEHOLDER_{}_{}]", category.to_uppercase(), placeholder)
\* (line 321).
placeholder_text(pii_category, placeholder) ==
    <<"[", "PLACEHOLDER", "_", category_to_uppercase(pii_category), "_", placeholder, "]">>

\* The concatenation of a sequence of strings.
RECURSIVE concat_all(_)
concat_all(parts) ==
    IF Len(parts) = 0 THEN <<>>
    ELSE IF Len(parts) = 1 THEN parts[1]
    ELSE LET half == Len(parts) \div 2
         IN  concat_all(SubSeq(parts, 1, half)) \o concat_all(SubSeq(parts, half + 1, Len(parts)))

\* str::replace with a non-empty pattern: the starts of the non-overlapping
\* occurrences of pat in text, left to right, from position p on.
RECURSIVE match_starts(_, _, _)
match_starts(text, pat, p) ==
    LET starts == { i \in p..(Len(text) - Len(pat) + 1) :
                      SubSeq(text, i, i + Len(pat) - 1) = pat }
    IN  IF starts = {} THEN <<>>
        ELSE LET first == CHOOSE i \in starts : \A j \in starts : i <= j
             IN  <<first>> \o match_starts(text, pat, first + Len(pat))

\* str::replace with a non-empty pattern: what lies between the occurrences,
\* each occurrence replaced by rep.
replace_matches(text, pat, rep) ==
    LET starts == match_starts(text, pat, 1)
        m      == Len(starts)
        from(k) == IF k = 1 THEN 1 ELSE starts[k - 1] + Len(pat)
    IN  concat_all([ k \in 1..(m + 1) |->
                       IF k <= m THEN SubSeq(text, from(k), starts[k] - 1) \o rep
                       ELSE SubSeq(text, from(k), Len(text)) ])

\* str::replace with the empty pattern: rep after every character.
intersperse(text, rep) == concat_all([ i \in 1..Len(text) |-> <<text[i]>> \o rep ])

\* str::replace.
str_replace(text, pat, rep) ==
    IF pat = <<>> THEN rep \o intersperse(text, rep) ELSE replace_matches(text, pat, rep)

\* meets_confidence_threshold (lines 49-51).
meets_confidence_threshold(confidence) == confidence >= DEFAULT_CONFIDENCE_THRESHOLD

\* check_confidence (lines 54-66).
check_confidence(confidence, value) ==
    IF value = None THEN FALSE
    ELSE IF ~meets_confidence_threshold(confidence) THEN FALSE
    ELSE TRUE

\* A PiiMapping (lines 324-332).
PiiMapping(pii_category, placeholder) ==
    [ pii_category |-> pii_category, placeholder |-> placeholder,
      is_encrypted |-> FALSE ]

\* create_mapping_and_replace (lines 309-335) with the fresh uuid given: the
\* new text and the mapping.
create_mapping_and_replace(text, pii_value, pii_category, uuid) ==
    [ text |-> str_replace(text, pii_value, placeholder_text(pii_category, uuid)),
      mapping |-> PiiMapping(pii_category, uuid) ]

\* The first pass of anonymize_text (lines 83-151) from field i on.
RECURSIVE first_pass(_, _, _, _)
first_pass(i, text, mappings, extraction) ==
    IF i > Len(Categories) THEN [text |-> text, mappings |-> mappings]
    ELSE LET field == extraction[Categories[i]]
         IN  IF check_confidence(field.confidence, field.value)
             THEN LET r == create_mapping_and_replace(text, field.value[1],
                              Categories[i], Uuids[Len(mappings) + 1])
                  IN  first_pass(i + 1, r.text, Append(mappings, r.mapping), extraction)
             ELSE first_pass(i + 1, text, mappings, extraction)

\* Regex::find_iter: the positions where text matches a token class, in
\* order.
find_iter(pattern, text) ==
    SelectSeq([ i \in 1..Len(text) |-> i ], LAMBDA i : text[i] \in pattern)

\* text[..capture.start()].ends_with("[PLACEHOLDER_") (line 172).
inside_placeholder(text, start) ==
    start > 3 /\ SubSeq(text, start - 3, start - 1) = <<"[", "PLACEHOLDER", "_">>

\* The amount a euro token parses to (lines 197-198).
euro_amount(value) == IF value = "E52.000" THEN 52000 ELSE 0

\* One loop of regex_fallback_anonymization: the captures of scanned from
\* the k-th on, each replaced in result when keep holds for it; used is the
\* number of uuids drawn before the call.
RECURSIVE regex_loop(_, _, _, _, _, _, _)
regex_loop(scanned, captures, k, category, result, mappings, used) ==
    IF k > Len(captures) THEN [text |-> result, mappings |-> mappings]
    ELSE LET start == captures[k]
             value == <<scanned[start]>>
             keep  == CASE category = "bsn_regex" -> ~inside_placeholder(scanned, start)
                        [] category = "amount_regex" -> euro_amount(scanned[start]) > 1000
                        [] OTHER -> TRUE
         IN  IF keep
             THEN LET r == create_mapping_and_replace(result, value, category,
                              Uuids[used + Len(mappings) + 1])
                  IN  regex_loop(scanned, captures, k + 1, category, r.text,
                                 Append(mappings, r.mapping), used)
             ELSE regex_loop(scanned, captures, k + 1, category, result, mappings, used)

\* regex_fallback_anonymization (lines 164-211): BSN matches of the given
\* text, then IBAN and euro matches of the result so far.
regex_fallback_anonymization(text, used) ==
    LET bsn  == regex_loop(text, find_iter(BsnTokens, text), 1, "bsn_regex",
                           text, <<>>, used)
        iban == regex_loop(bsn.text, find_iter(IbanTokens, bsn.text), 1, "iban_regex",
                           bsn.text, bsn.mappings, used)
    IN  regex_loop(iban.text, find_iter(EuroTokens, iban.text), 1, "amount_regex",
                   iban.text, iban.mappings, used)

\* anonymize_text (lines 70-161).
anonymize_text(text, pii_extraction) ==
    LET first  == first_pass(1, text, <<>>, pii_extraction)
        second == regex_fallback_anonymization(first.text, Len(first.mappings))
    IN  [ anonymized_text |-> second.text,
          mappings |-> first.mappings \o second.mappings ]

\* The search string of deanonymize_text (line 224): the raw string keeps its
\* backslashes.
placeholder_pattern(pii_category, placeholder) ==
    <<"\\", "[", "PLACEHOLDER", "_", category_to_uppercase(pii_category), "_",
      placeholder, "\\", "]">>

\* format!("[{}]", mapping.pii_category) (line 225).
category_tag(pii_category) == <<"[", pii_category, "]">>

\* deanonymize_text (lines 214-229), from the i-th mapping on.
RECURSIVE deanonymize_from(_, _, _)
deanonymize_from(i, text, mappings) ==
    IF i > Len(mappings) THEN text
    ELSE deanonymize_from(i + 1,
             str_replace(text,
                         placeholder_pattern(mappings[i].pii_category, mappings[i].placeholder),
                         category_tag(mappings[i].pii_category)),
             mappings)

deanonymize_text(anonymized_text, mappings) == deanonymize_from(1, anonymized_text, mappings)

NoAnonOutput == [anonymized_text |-> <<>>, mappings |-> <<>>]

NoExtraction == [ c \in CategorySet |-> AbsentField ]

InitAnon ==
    /\ anPc = "idle"
    /\ anText = <<>>
    /\ anExtraction = NoExtraction
    /\ anOut = NoAnonOutput
    /\ anDeanon = <<>>

\* A call of anonymize_text.
AnAnonymize ==
    /\ anPc = "idle"
    /\ \E text \in AnTexts, extraction \in PIIExtractions :
         /\ anText' = text
         /\ anExtraction' = extraction
         /\ anOut' = anonymize_text(text, extraction)
    /\ anPc' = "anonymized"
    /\ UNCHANGED <<anDeanon, rtVars, chVars, dbVars, hostVars, dlVars, rhVars, gnVars>>

\* A call of deanonymize_text on what anonymize_text returned.
AnDeanonymize ==
    /\ anPc = "anonymized"
    /\ anDeanon' = deanonymize_text(anOut.anonymized_text, anOut.mappings)
    /\ anPc' = "deanonymized"
    /\ UNCHANGED <<anText, anExtraction, anOut, rtVars, chVars, dbVars, hostVars, dlVars, rhVars, gnVars>>

\* The results are dropped; the next call may start.
AnDone ==
    /\ anPc = "deanonymized"
    /\ anPc' = "idle"
    /\ anText' = <<>>
    /\ anExtraction' = NoExtraction
    /\ anOut' = NoAnonOutput
    /\ anDeanon' = <<>>
    /\ UNCHANGED <<rtVars, chVars, dbVars, hostVars, dlVars, rhVars, gnVars>>

NextAnon ==
    \/ AnAnonymize
    \/ AnDeanonymize
    \/ AnDone

(***************************************************************************)
(* Re-hydration of templates (rehydration.rs)                              *)
(*                                                                         *)
(* A template is a sequence of tokens: a placeholder such as "[NAME]" is   *)
(* one token, any other token is one character.  A value is a sequence of  *)
(* tokens as well.                                                         *)
(***************************************************************************)
\* PLACEHOLDERS (lines 17-44): the pairs of type and placeholder.
PLACEHOLDERS ==
    << <<"BSN", "[BSN]">>, <<"NAME", "[NAME]">>, <<"SURNAME", "[SURNAME]">>,
       <<"FULL_NAME", "[FULL_NAME]">>, <<"DATE_OF_BIRTH", "[DATE_OF_BIRTH]">>,
       <<"EMAIL", "[EMAIL]">>, <<"PHONE", "[PHONE]">>, <<"ADDRESS", "[ADDRESS]">>,
       <<"POSTCODE", "[POSTCODE]">>, <<"CITY", "[CITY]">>,
       <<"INCOME", "[INCOME]">>, <<"SALARY", "[SALARY]">>, <<"IBAN", "[IBAN]">>,
       <<"BANK_ACCOUNT", "[BANK_ACCOUNT]">>,
       <<"TAX_NUMBER", "[TAX_NUMBER]">>, <<"TAX_YEAR", "[TAX_YEAR]">>,
       <<"ACCOUNTANT_NAME", "[ACCOUNTANT_NAME]">>,
       <<"ACCOUNTANT_EMAIL", "[ACCOUNTANT_EMAIL]">>,
       <<"EMPLOYER_NAME", "[EMPLOYER_NAME]">>,
       <<"CURRENT_DATE", "[CURRENT_DATE]">> >>

\* The keys of the custom maps given to rehydrate_template.
CustomKeys == {"PROJECT", "CLIENT"}

\* format!("[{}]", key) (line 199).
custom_placeholder(key) == IF key = "PROJECT" THEN "[PROJECT]" ELSE "[CLIENT]"

\* placeholder.trim_matches(|c| c == '[' || c == ']') (line 187).
trim_brackets(placeholder) ==
    LET i == CHOOSE k \in 1..Len(PLACEHOLDERS) : PLACEHOLDERS[k][2] = placeholder
    IN  PLACEHOLDERS[i][1]

\* The fields of PIIValues but custom (lines 49-71).
PiiFields ==
    { "bsn", "name", "surname", "date_of_birth", "email", "phone", "address",
      "postcode", "city", "income", "salary", "iban", "tax_number", "tax_year",
      "accountant_name", "accountant_email", "employer_name" }

\* PIIValues::default() (line 47).
DefaultPIIValues == [ f \in PiiFields \cup {"custom"} |-> <<>> ]

\* get_current_date() and get_current_tax_year() (lines 298-310) on the day
\* of the calls.
current_date == <<"0", "4", "-", "1", "1", "-", "2", "0", "2", "6">>

current_tax_year == <<"2", "0", "2", "6">>

\* combine_full_name (lines 285-296).
combine_full_name(pii) ==
    IF pii.name = None /\ pii.surname = None THEN None
    ELSE IF pii.surname = None THEN Some(pii.name[1])
    ELSE IF pii.name = None THEN Some(pii.surname[1])
    ELSE Some(pii.name[1] \o <<" ">> \o pii.surname[1])

\* Option::or_else.
or_else(value, other) == IF value = None THEN other ELSE value

\* The replacements vector (lines 152-179).
Replacement(placeholder, value, is_sensitive) ==
    [placeholder |-> placeholder, value |-> value, is_sensitive |-> is_sensitive]

replacements(pii) ==
    << Replacement("[BSN]", pii.bsn, TRUE),
       Replacement("[NAME]", pii.name, FALSE),
       Replacement("[SURNAME]", pii.surname, FALSE),
       Replacement("[FULL_NAME]", combine_full_name(pii), FALSE),
       Replacement("[DATE_OF_BIRTH]", pii.date_of_birth, TRUE),
       Replacement("[EMAIL]", pii.email, FALSE),
       Replacement("[PHONE]", pii.phone, TRUE),
       Replacement("[ADDRESS]", pii.address, FALSE),
       Replacement("[POSTCODE]", pii.postcode, FALSE),
       Replacement("[CITY]", pii.city, FALSE),
       Replacement("[INCOME]", pii.income, TRUE),
       Replacement("[SALARY]", pii.salary, TRUE),
       Replacement("[IBAN]", pii.iban, TRUE),
       Replacement("[BANK_ACCOUNT]", pii.iban, TRUE),
       Replacement("[TAX_NUMBER]", or_else(pii.tax_number, pii.bsn), TRUE),
       Replacement("[TAX_YEAR]", or_else(pii.tax_year, Some(current_tax_year)), FALSE),
       Replacement("[ACCOUNTANT_NAME]", pii.accountant_name, FALSE),
       Replacement("[ACCOUNTANT_EMAIL]", pii.accountant_email, FALSE),
       Replacement("[EMPLOYER_NAME]", pii.employer_name, FALSE),
       Replacement("[CURRENT_DATE]", Some(current_date), FALSE) >>

\* The bytes of a token: a placeholder held by a value counts its characters.
token_len(tok) ==
    CASE tok = "[CITY]" -> 6
      [] tok = "[CLIENT]" -> 8
      [] OTHER -> 1

\* str::len.
RECURSIVE str_len(_)
str_len(value) == IF value = <<>> THEN 0 ELSE token_len(Head(value)) + str_len(Tail(value))

\* &value[value.len() - n..] and &value[..n] on values of one-byte tokens.
last_bytes(value, n) == SubSeq(value, Len(value) - n + 1, Len(value))

first_bytes(value, n) == SubSeq(value, 1, n)

Digits == {"0", "1", "2", "3", "4", "5", "6", "7", "8", "9"}

Stars(n) == [ i \in 1..n |-> "*" ]

\* value.find('@') (line 338): None or the position, from 1.
find_at(value) ==
    IF \E i \in 1..Len(value) : value[i] = "@"
    THEN Some(CHOOSE i \in 1..Len(value) :
                 value[i] = "@" /\ \A j \in 1..(i - 1) : value[j] # "@")
    ELSE None

\* mask_value (lines 312-358).
mask_value(value, placeholder) ==
    CASE placeholder = "[BSN]" ->
           IF str_len(value) > 3 THEN Stars(3) \o last_bytes(value, 3) ELSE Stars(3)
      [] placeholder \in {"[IBAN]", "[BANK_ACCOUNT]"} ->
           IF str_len(value) > 4 THEN Stars(4) \o last_bytes(value, 4) ELSE Stars(4)
      [] placeholder \in {"[INCOME]", "[SALARY]"} -> <<"euro">> \o Stars(3)
      [] placeholder = "[PHONE]" ->
           LET digits == SelectSeq(value, LAMBDA c : c \in Digits)
           IN  IF Len(digits) > 4 THEN Stars(4) \o last_bytes(digits, 4) ELSE Stars(4)
      [] placeholder = "[EMAIL]" ->
           IF find_at(value) # None
           THEN LET at_pos == find_at(value)[1]
                    local  == SubSeq(value, 1, at_pos - 1)
                    domain == SubSeq(value, at_pos, Len(value))
                IN  IF str_len(local) > 2 THEN first_bytes(local, 2) \o Stars(3) \o domain
                    ELSE Stars(3) \o domain
           ELSE Stars(3) \o <<"@">> \o Stars(3)
      [] OTHER ->
           IF str_len(value) > 20 THEN first_bytes(value, 20) \o <<".", ".", ".">>
           ELSE value

\* A FilledPlaceholder (lines 93-98).
FilledPlaceholder(placeholder, placeholder_type, masked_value, is_sensitive) ==
    [ placeholder |-> placeholder, placeholder_type |-> placeholder_type,
      masked_value |-> masked_value, is_sensitive |-> is_sensitive ]

\* result.contains(placeholder) for a placeholder token.
contains(result, placeholder) == \E i \in 1..Len(result) : result[i] = placeholder

\* The loop over the replacements (lines 181-195), from the i-th on.
RECURSIVE fixed_pass(_, _, _, _, _)
fixed_pass(i, table, result, filled, unfilled) ==
    IF i > Len(table) THEN [result |-> result, filled |-> filled, unfilled |-> unfilled]
    ELSE LET r == table[i]
         IN  IF ~contains(result, r.placeholder)
             THEN fixed_pass(i + 1, table, result, filled, unfilled)
             ELSE IF r.value # None
             THEN fixed_pass(i + 1, table,
                             str_replace(result, <<r.placeholder>>, r.value[1]),
                             Append(filled,
                                    FilledPlaceholder(r.placeholder,
                                                      trim_brackets(r.placeholder),
                                                      mask_value(r.value[1], r.placeholder),
                                                      r.is_sensitive)),
                             unfilled)
             ELSE fixed_pass(i + 1, table, result, filled, Append(unfilled, r.placeholder))

\* The loop over pii_values.custom (lines 198-213), in the order keys of the
\* iteration, from the i-th key on.
RECURSIVE custom_pass(_, _, _, _, _)
custom_pass(i, keys, custom, result, filled) ==
    IF i > Len(keys) THEN [result |-> result, filled |-> filled]
    ELSE LET key == keys[i]
             value == custom[key]
         IN  IF contains(result, custom_placeholder(key))
             THEN custom_pass(i + 1, keys, custom,
                      str_replace(result, <<custom_placeholder(key)>>, value),
                      Append(filled,
                             FilledPlaceholder(custom_placeholder(key), key,
                                 IF str_len(value) > 10
                                 THEN first_bytes(value, 10) \o <<".", ".", ".">>
                                 ELSE value,
                                 FALSE)))
             ELSE custom_pass(i + 1, keys, custom, result, filled)

\* The orders in which a HashMap or a HashSet of these elements can be
\* iterated: the hasher is seeded afresh for every map and set.
IterationOrders(S) ==
    { order \in [1..Cardinality(S) -> S] :
        \A i, j \in 1..Cardinality(S) : order[i] = order[j] => i = j }

\* rehydrate_template (lines 146-229) when the custom map is iterated in the
\* order keys and the set of unfilled placeholders in one of its orders.
rehydrate_with(template, pii, keys, unique_unfilled) ==
    LET fixed  == fixed_pass(1, replacements(pii), template, <<>>, <<>>)
        custom == custom_pass(1, keys, pii.custom, fixed.result, fixed.filled)
    IN  [ content |-> custom.result,
          filled_placeholders |-> custom.filled,
          unfilled_placeholders |-> unique_unfilled,
          is_complete |-> (unique_unfilled = <<>>) ]

\* The placeholders pushed to unfilled_placeholders (lines 191-193).
unfilled_of(template, pii) ==
    Range(fixed_pass(1, replacements(pii), template, <<>>, <<>>).unfilled)

\* The results rehydrate_template can return.
rehydrate_template(template, pii) ==
    { rehydrate_with(template, pii, keys, unique_unfilled) :
        keys \in IterationOrders(DOMAIN pii.custom),
        unique_unfilled \in IterationOrders(unfilled_of(template, pii)) }

\* The tokens the regex \[([A-Z_]+)\] of analyze_template matches (line 113):
\* the bracketed names, registered or not.
matches_placeholder(tok) ==
    \/ \E k \in 1..Len(PLACEHOLDERS) : PLACEHOLDERS[k][2] = tok
    \/ \E key \in CustomKeys : custom_placeholder(key) = tok

\* cap.get(1): the name between the brackets (line 119).
placeholder_key(tok) ==
    IF \E k \in 1..Len(PLACEHOLDERS) : PLACEHOLDERS[k][2] = tok
    THEN trim_brackets(tok)
    ELSE CHOOSE key \in CustomKeys : custom_placeholder(key) = tok

\* has_value_for_placeholder (lines 256-279).
has_value_for_placeholder(key, pii) ==
    CASE key = "BSN" -> pii.bsn # None
      [] key = "NAME" -> pii.name # None
      [] key = "SURNAME" -> pii.surname # None
      [] key = "FULL_NAME" -> pii.name # None \/ pii.surname # None
      [] key = "DATE_OF_BIRTH" -> pii.date_of_birth # None
      [] key = "EMAIL" -> pii.email # None
      [] key = "PHONE" -> pii.phone # None
      [] key = "ADDRESS" -> pii.address # None
      [] key = "POSTCODE" -> pii.postcode # None
      [] key = "CITY" -> pii.city # None
      [] key = "INCOME" -> pii.income # None
      [] key = "SALARY" -> pii.salary # None
      [] key \in {"IBAN", "BANK_ACCOUNT"} -> pii.iban # None
      [] key = "TAX_NUMBER" -> pii.tax_number # None \/ pii.bsn # None
      [] key = "TAX_YEAR" -> pii.tax_year # None \/ TRUE
      [] key = "ACCOUNTANT_NAME" -> pii.accountant_name # None
      [] key = "ACCOUNTANT_EMAIL" -> pii.accountant_email # None
      [] key = "EMPLOYER_NAME" -> pii.employer_name # None
      [] key = "CURRENT_DATE" -> TRUE
      [] OTHER -> key \in DOMAIN pii.custom

\* is_dynamic_placeholder (lines 281-283).
is_dynamic_placeholder(key) == key \in {"CURRENT_DATE", "TAX_YEAR"}

\* PlaceholderInfo (lines 78-83); the position counts tokens.
PlaceholderInfo(template, pii, i) ==
    [ placeholder |-> template[i],
      placeholder_type |-> placeholder_key(template[i]),
      position |-> i - 1,
      has_value |-> has_value_for_placeholder(placeholder_key(template[i]), pii) ]

\* analyze_template (lines 112-143).  missing_values, sorted and without
\* duplicates, is the set of its elements.
analyze_template(template, pii) ==
    LET captures == SelectSeq([ i \in 1..Len(template) |-> i ],
                              LAMBDA i : matches_placeholder(template[i]))
        placeholders == [ n \in 1..Len(captures) |-> PlaceholderInfo(template, pii, captures[n]) ]
        missing_values == { placeholders[n].placeholder_type :
                              n \in { m \in 1..Len(placeholders) :
                                        /\ ~placeholders[m].has_value
                                        /\ ~is_dynamic_placeholder(placeholders[m].placeholder_type) } }
    IN  [ placeholders |-> placeholders,
          can_fully_hydrate |-> (missing_values = {}),
          missing_values |-> missing_values ]

\* Tokens of the templates given to rehydrate_template.
TemplateTokens ==
    { "D", "[NAME]", "[FULL_NAME]", "[CITY]", "[BSN]", "[TAX_NUMBER]",
      "[EMPLOYER_NAME]", "[CURRENT_DATE]", "[PROJECT]", "[CLIENT]" }

MaxTemplateLen == 2

Templates == UNION { [1..n -> TemplateTokens] : n \in 0..MaxTemplateLen }

\* Values of the fields the calls fill; a value may hold the text of a
\* placeholder.
RhFieldValues(field) ==
    IF field = "bsn" THEN { <<"1", "2", "3", "4">> }
    ELSE { <<"J", "a", "n">>, <<"[CITY]">> }

RhFields == {"bsn", "name", "surname", "city"}

RhCustomValues(key) == IF key = "PROJECT" THEN { <<"X">>, <<"[CLIENT]">> } ELSE { <<"Y">> }

RhCustoms ==
    UNION { { c \in [K -> UNION { RhCustomValues(k) : k \in CustomKeys }] :
                \A k \in K : c[k] \in RhCustomValues(k) } : K \in SUBSET CustomKeys }

RhPIIValues ==
    { [ f \in PiiFields \cup {"custom"} |->
          IF f = "custom" THEN custom
          ELSE IF f \in RhFields THEN chosen[f]
          ELSE None ] :
        chosen \in { g \in [RhFields -> {None} \cup UNION { { Some(v) : v \in RhFieldValues(f) } : f \in RhFields }] :
                       \A f \in RhFields : g[f] = None \/ g[f][1] \in RhFieldValues(f) },
        custom \in RhCustoms }

NoAnalysis == [ placeholders |-> <<>>, can_fully_hydrate |-> TRUE, missing_values |-> {} ]

NoRehydration ==
    [ content |-> <<>>, filled_placeholders |-> <<>>, unfilled_placeholders |-> <<>>,
      is_complete |-> TRUE ]

InitRehydrate ==
    /\ rhPc = "idle"
    /\ rhTemplate = <<>>
    /\ rhPii = DefaultPIIValues
    /\ rhResult = NoRehydration
    /\ rhAnalysis = NoAnalysis

\* A call of rehydrate_template.
RhCall ==
    /\ rhPc = "idle"
    /\ \E template \in Templates, pii \in RhPIIValues :
         /\ rhTemplate' = template
         /\ rhPii' = pii
         /\ rhResult' \in rehydrate_template(template, pii)
    /\ rhPc' = "once"
    /\ UNCHANGED <<rhAnalysis, rtVars, chVars, dbVars, hostVars, dlVars, anVars, gnVars>>

\* A second call with the same template and the same values.
RhRepeat ==
    /\ rhPc = "once"
    /\ rhResult' \in rehydrate_template(rhTemplate, rhPii)
    /\ rhPc' = "twice"
    /\ UNCHANGED <<rhTemplate, rhPii, rhAnalysis, rtVars, chVars, dbVars, hostVars, dlVars, anVars, gnVars>>

\* A call of analyze_template with the template and the values of the calls
\* of rehydrate_template.
RhAnalyze ==
    /\ rhPc = "twice"
    /\ rhAnalysis' = analyze_template(rhTemplate, rhPii)
    /\ rhPc' = "analyzed"
    /\ UNCHANGED <<rhTemplate, rhPii, rhResult, rtVars, chVars, dbVars, hostVars, dlVars, anVars, gnVars>>

\* The results are dropped; the next pair of calls may start.
RhDone ==
    /\ rhPc = "analyzed"
    /\ rhPc' = "idle"
    /\ rhTemplate' = <<>>
    /\ rhPii' = DefaultPIIValues
    /\ rhResult' = NoRehydration
    /\ rhAnalysis' = NoAnalysis
    /\ UNCHANGED <<rtVars, chVars, dbVars, hostVars, dlVars, anVars, gnVars>>

NextRehydrate ==
    \/ RhCall
    \/ RhRepeat
    \/ RhAnalyze
    \/ RhDone

(***************************************************************************)
(* Generation (llama_backend.rs run_inference, 466-600): the prompt is     *)
(* decoded in batches of N_BATCH tokens, then tokens are sampled one at a  *)
(* time until a stop token, the repetition guard or max_gen ends the loop. *)
(* A byte is a string; a token is the sequence of bytes it decodes to.     *)
(***************************************************************************)
MAX_TOKENS == 512

N_BATCH == 256

rep_window == 40

\* ctx_size of the registry models (lines 51, 64, 77, 90).
CtxSizes == {1024, 2048}

\* Lengths of the tokenized prompt that are explored: within one batch, on
\* the batch boundary, over it, and over max_prompt of the smaller context.
PromptLens == {1, 2, N_BATCH, N_BATCH + 1, 300, 960, 1500}

run(byte, n) == [ i \in 1..n |-> byte ]

\* The byte strings of the tokens of the vocabulary that are explored: runs
\* of one byte of 1, 20 and 40 bytes, and one other byte.
RunTokens == { run("a", 1), run("a", 20), run("a", 40) }

OtherTokens == { <<"b">> }

\* token_eos(), told from the other tokens by a byte string of its own.
eos_token == <<"<eos>">>

\* What the sampler can return after `out`: the end-of-sequence token or a
\* token of the vocabulary (the other byte is explored as first token only).
Sampled(out) == {eos_token} \cup RunTokens \cup (IF out = <<>> THEN OtherTokens ELSE {})

\* min of two numbers.
min(a, b) == IF a <= b THEN a ELSE b

\* tokens_list.chunks(N_BATCH): the length of chunk i (from 0) of n tokens.
chunk_len(n, i) == min(N_BATCH, n - i * N_BATCH)

\* The number of chunks of n tokens.
chunk_count(n) == (n + N_BATCH - 1) \div N_BATCH

\* The prompt after truncation to max_prompt = ctx_size - 64 tokens (470-476).
truncated_len(ctx, n) == min(n, ctx - 64)

\* max_gen (524).
max_gen_of(ctx, n) == min(ctx - n, MAX_TOKENS)

\* The comparison of the repetition check (554-557): the last rep_window
\* bytes against the rep_window bytes before them.
windows_repeat(out) ==
    LET len == Len(out)
    IN  SubSeq(out, len - rep_window + 1, len)
          = SubSeq(out, len - 2 * rep_window + 1, len - rep_window)

InitGenerate ==
    /\ gnPc = "idle"
    /\ ctx_size = 0
    /\ token_count = 0
    /\ chunk_i = 0
    /\ batch = [pos |-> 0, n_tokens |-> 0]
    /\ decoded = 0
    /\ n_cur = 0
    /\ token_idx = 0
    /\ output_bytes = <<>>
    /\ rep_count = 0
    /\ stop = "none"
    /\ len_at_stop = 0
    /\ gnRet = Ok("none")

\* run_inference up to the prefill loop (432-485): the context of the loaded
\* model, the tokenized prompt (never empty: AddBos::Always) and its
\* truncation.
GnStart ==
    /\ gnPc = "idle"
    /\ \E ctx \in CtxSizes, n \in PromptLens :
         /\ ctx_size' = ctx
         /\ token_count' = truncated_len(ctx, n)
    /\ gnPc' = "prefill"
    /\ chunk_i' = 0
    /\ batch' = [pos |-> 0, n_tokens |-> 0]
    /\ decoded' = 0
    /\ n_cur' = 0
    /\ token_idx' = 0
    /\ output_bytes' = <<>>
    /\ rep_count' = 0
    /\ stop' = "none"
    /\ len_at_stop' = 0
    /\ gnRet' = Ok("none")
    /\ UNCHANGED <<rtVars, chVars, dbVars, hostVars, dlVars, anVars, rhVars>>

\* One iteration of the prefill loop (487-500): the batch is cleared, chunk i
\* is added at positions offset .. offset + len - 1 and decoded.
GnPrefill ==
    /\ gnPc = "prefill"
    /\ chunk_i < chunk_count(token_count)
    /\ batch' = [pos |-> chunk_i * N_BATCH, n_tokens |-> chunk_len(token_count, chunk_i)]
    /\ decoded' = decoded + chunk_len(token_count, chunk_i)
    /\ chunk_i' = chunk_i + 1
    /\ UNCHANGED <<gnPc, ctx_size, token_count, n_cur, token_idx, output_bytes, rep_count,
                   stop, len_at_stop, gnRet,
                   rtVars, chVars, dbVars, hostVars, dlVars, anVars, rhVars>>

\* After the prefill loop (520-530): n_cur = batch.n_tokens(), the number of
\* tokens of the batch as the last chunk left it.
GnSetup ==
    /\ gnPc = "prefill"
    /\ chunk_i = chunk_count(token_count)
    /\ n_cur' = batch.n_tokens
    /\ token_idx' = 0
    /\ rep_count' = 0
    /\ output_bytes' = <<>>
    /\ gnPc' = "sampling"
    /\ UNCHANGED <<ctx_size, token_count, chunk_i, batch, decoded, stop, len_at_stop, gnRet,
                   rtVars, chVars, dbVars, hostVars, dlVars, anVars, rhVars>>

\* The sampled token is a stop token (536-539).
stop_token ==
    /\ gnPc' = "generated"
    /\ stop' = "eos"
    /\ len_at_stop' = Len(output_bytes)
    /\ UNCHANGED <<output_bytes, rep_count, batch, decoded, n_cur, token_idx>>

\* The guard fires (558-563): the last two windows are cut off and the loop
\* ends.
repetition_detected(out) ==
    /\ gnPc' = "generated"
    /\ stop' = "repetition"
    /\ len_at_stop' = Len(out)
    /\ output_bytes' = SubSeq(out, 1, Len(out) - 2 * rep_window)
    /\ rep_count' = rep_count + 1
    /\ UNCHANGED <<batch, decoded, n_cur, token_idx>>

\* The rest of the iteration (569-579): the token is decoded at position
\* n_cur, and n_cur moves on.
decode_token(out, count) ==
    /\ output_bytes' = out
    /\ rep_count' = count
    /\ batch' = [pos |-> n_cur, n_tokens |-> 1]
    /\ decoded' = decoded + 1
    /\ n_cur' = n_cur + 1
    /\ token_idx' = token_idx + 1
    /\ UNCHANGED <<gnPc, stop, len_at_stop>>

\* The bytes of the token have been appended (541-567).
extend_output(out) ==
    IF Len(out) >= rep_window * 2
    THEN IF windows_repeat(out)
         THEN IF rep_count + 1 >= 3
              THEN repetition_detected(out)
              ELSE decode_token(out, rep_count + 1)
         ELSE decode_token(out, 0)
    ELSE decode_token(out, rep_count)

\* One iteration of the sampling loop (532-580).
GnSample ==
    /\ gnPc = "sampling"
    /\ token_idx < max_gen_of(ctx_size, token_count)
    /\ \E token \in Sampled(output_bytes) :
         IF token = eos_token
         THEN stop_token
         ELSE extend_output(output_bytes \o token)
    /\ UNCHANGED <<ctx_size, token_count, chunk_i, gnRet,
                   rtVars, chVars, dbVars, hostVars, dlVars, anVars, rhVars>>

\* The loop has run max_gen times (532).
GnExhausted ==
    /\ gnPc = "sampling"
    /\ token_idx >= max_gen_of(ctx_size, token_count)
    /\ gnPc' = "generated"
    /\ stop' = "max_gen"
    /\ len_at_stop' = Len(output_bytes)
    /\ UNCHANGED <<ctx_size, token_count, chunk_i, batch, decoded, n_cur, token_idx,
                   output_bytes, rep_count, gnRet,
                   rtVars, chVars, dbVars, hostVars, dlVars, anVars, rhVars>>

\* After the loop (582-599): n_gen = n_cur as usize - token_count, which
\* panics in a build with overflow checks when n_cur is the smaller one and
\* wraps otherwise; then the output is returned.
GnFinish ==
    /\ gnPc = "generated"
    /\ gnPc' = "returned"
    /\ \/ gnRet' = Ok(output_bytes)
       \/ /\ n_cur < token_count
          /\ gnRet' = Err("Panic")
    /\ UNCHANGED <<ctx_size, token_count, chunk_i, batch, decoded, n_cur, token_idx,
                   output_bytes, rep_count, stop, len_at_stop,
                   rtVars, chVars, dbVars, hostVars, dlVars, anVars, rhVars>>

\* The caller has its result; the next generation starts from scratch.
GnDone ==
    /\ gnPc = "returned"
    /\ gnPc' = "idle"
    /\ ctx_size' = 0
    /\ token_count' = 0
    /\ chunk_i' = 0
    /\ batch' = [pos |-> 0, n_tokens |-> 0]
    /\ decoded' = 0
    /\ n_cur' = 0
    /\ token_idx' = 0
    /\ output_bytes' = <<>>
    /\ rep_count' = 0
    /\ stop' = "none"
    /\ len_at_stop' = 0
    /\ gnRet' = Ok("none")
    /\ UNCHANGED <<rtVars, chVars, dbVars, hostVars, dlVars, anVars, rhVars>>

NextGenerate ==
    \/ GnStart
    \/ GnPrefill
    \/ GnSetup
    \/ GnSample
    \/ GnExhausted
    \/ GnFinish
    \/ GnDone

(***************************************************************************)
(* Specifications                                                          *)
(***************************************************************************)
Init == InitRouter /\ InitChat /\ InitStore /\ InitHost /\ InitDownload /\ InitAnon /\ InitRehydrate /\ InitGenerate

Next == NextRouter \/ NextChat \/ NextStore \/ NextHost \/ NextDownload \/ NextAnon \/ NextRehydrate \/ NextGenerate

\* The whole control plane.
Spec == Init /\ [][Next]_vars

\* One subsystem at a time, the others idle (for the router, the chat handler
\* and the store: on a fresh install, no model file on disk).
InitFresh == InitRouter /\ InitChat /\ InitStore /\ HostInit({}) /\ InitDownload /\ InitAnon /\ InitRehydrate /\ InitGenerate

SpecRouter == InitFresh /\ [][NextRouter]_vars

SpecChat == InitFresh /\ [][NextChat]_vars

SpecStore == InitFresh /\ [][NextStore]_vars

SpecHost == Init /\ [][NextHost]_vars

\* Downloads, deletions and the choice of the active model on a fresh
\* install.
\* The host under fair scheduling: a task that can take its next step takes
\* it (the runtime polls every woken task), and a task queued for the
\* loaded_model mutex gets it (the tokio mutex serves its waiters in order).
\* Nothing is assumed about when commands and new calls arrive.
HostFairness ==
    \A t \in Tasks :
        /\ WF_vars(ReadActive(t))
        /\ SF_vars(QuickCheck(t))
        /\ WF_vars(Cas1(t))
        /\ WF_vars(WaitPoll(t))
        /\ SF_vars(WaitCheck(t))
        /\ WF_vars(Cas2(t))
        /\ WF_vars(DoLoadCheck(t))
        /\ WF_vars(LoadFile(t))
        /\ SF_vars(StoreSlot(t))
        /\ WF_vars(LoadDone(t))
        /\ SF_vars(InferLock(t))
        /\ WF_vars(DecodeDone(t))

SpecHostFair == Init /\ [][NextHost]_vars /\ HostFairness

\* The host with callers that may drop a pending generate or preload.
NextHostCancel == NextHost \/ \E t \in Tasks : Cancel(t)

SpecHostCancel == Init /\ [][NextHostCancel]_vars

SpecDownload == InitFresh /\ [][NextDownload]_vars

SpecAnon == InitFresh /\ [][NextAnon]_vars

SpecRehydrate == InitFresh /\ [][NextRehydrate]_vars

SpecGenerate == InitFresh /\ [][NextGenerate]_vars

(***************************************************************************)
(* Properties of the router (checked under SpecRouter)                     *)
(***************************************************************************)
RtDecided == rtOp = "make_routing_decision" /\ rtResult.kind = "Ok"

RtBackend == to_lowercase(rtPersona.preferred_backend)

RtRequired == rtPersona.anonymization_mode = "required"

RtOptional == rtPersona.anonymization_mode = "optional"

RtProbeFalse == rtAvailable = Some(FALSE)

RtProbeTrue == rtAvailable = Some(TRUE)

\* C1, Fail-Closed: every make_routing_decision call for a persona in
\* required mode (any backend, any enable_local_anonymizer) whose probe
\* answered false returns is_safe = false.
C1_FailClosed ==
    (rtOp = "make_routing_decision" /\ RtRequired /\ RtProbeFalse)
        => (rtResult.kind = "Ok" /\ rtResult.value.is_safe = FALSE)

\* C4, the optional-mode floor: optional mode with a local or hybrid
\* preferred backend and a false probe yields content_mode = attributes_only,
\* never full_text.
C4_OptionalFloor ==
    (RtDecided /\ RtOptional /\ RtProbeFalse /\ RtBackend \in {"ollama", "hybrid"})
        => rtResult.value.content_mode = "AttributesOnly"

\* C5, the row hybrid / optional / no: whatever enable_local_anonymizer is,
\* the decision is backend direct, attributes_only, anonymize false, is_safe
\* true, fallback local_unavailable.
C5_HybridFallback ==
    (RtDecided /\ RtBackend = "hybrid" /\ RtOptional /\ RtProbeFalse)
        => /\ rtResult.value.backend = "Nebius"
           /\ rtResult.value.content_mode = "AttributesOnly"
           /\ rtResult.value.anonymize = FALSE
           /\ rtResult.value.is_safe = TRUE
           /\ rtResult.value.fallback = FallbackOllamaUnavailable

\* The content mode the decision table gives by mode: attributes_only in
\* required mode, full_text otherwise.
TableContentMode == IF RtRequired THEN "AttributesOnly" ELSE "FullText"

\* C6, hybrid with the local model available: backend hybrid, anonymize =
\* true, is_safe = true and the table's content mode.
C6_HybridAvailable ==
    (RtDecided /\ RtBackend = "hybrid" /\ RtProbeTrue)
        => /\ rtResult.value.backend = "Hybrid"
           /\ rtResult.value.anonymize = TRUE
           /\ rtResult.value.is_safe = TRUE
           /\ rtResult.value.content_mode = TableContentMode

\* C7, the direct and local rows of the decision table: direct is never
\* blocked and is attributes_only exactly in required mode; local is served
\* locally when available, blocked when unavailable in required mode, and
\* falls back to direct full_text with a local_unavailable event otherwise.
C7_DirectAndLocalRows ==
    RtDecided =>
        /\ RtBackend = "nebius" =>
              /\ rtResult.value.backend = "Nebius"
              /\ rtResult.value.anonymize = FALSE
              /\ rtResult.value.is_safe = TRUE
              /\ rtResult.value.content_mode = TableContentMode
        /\ (RtBackend = "ollama" /\ RtProbeTrue) =>
              /\ rtResult.value.backend = "Ollama"
              /\ rtResult.value.content_mode = "FullText"
              /\ rtResult.value.anonymize = FALSE
              /\ rtResult.value.is_safe = TRUE
        /\ (RtBackend = "ollama" /\ RtProbeFalse /\ RtRequired) =>
              rtResult.value.is_safe = FALSE
        /\ (RtBackend = "ollama" /\ RtProbeFalse /\ ~RtRequired) =>
              /\ rtResult.value.backend = "Nebius"
              /\ rtResult.value.content_mode = "FullText"
              /\ rtResult.value.is_safe = TRUE
              /\ rtResult.value.fallback = FallbackOllamaUnavailable

\* C8, routing never fails: make_routing_decision and determine_backend
\* both return a value, never an error, for every persona and probe result.
C8_RoutingNeverFails ==
    rtOp \in {"make_routing_decision", "determine_backend"} => rtResult.kind = "Ok"

\* Invariants P1 and P2 of a persona's policy columns.
P1(p) == p.anonymization_mode = "required" => p.enable_local_anonymizer

P2(p) == to_lowercase(p.preferred_backend) = "ollama" => p.enable_local_anonymizer

(***************************************************************************)
(* Properties of process_chat_with_privacy (checked under SpecChat)        *)
(***************************************************************************)
\* C2: when the decision obtained by the handler is unsafe, it returns a
\* request with is_safe = false and an empty prompt, and performs no I/O
\* after the decision.
C2_UnsafeShortCircuits ==
    (chPc \in {"decided", "extract", "done"} /\ ~chDecision.is_safe)
        => /\ Len(chIo) = chIoAtDecision
           /\ chPc # "extract"
           /\ chPc = "done" =>
                 /\ chResult.kind = "Ok"
                 /\ chResult.value.is_safe = FALSE
                 /\ chResult.value.prompt = <<>>

C2_Witness ==
    /\ chPc = "done"
    /\ ~chDecision.is_safe
    /\ chText # <<>>
    /\ chResult.value.content_mode = "blocked"

\* The declared categorical vocabulary: every token attributes_to_prompt
\* emits by itself (profile lines and boilerplate), for any attributes.
CategoricalVocabulary ==
    UNION { Range(attributes_to_prompt(a, <<>>)) : a \in SampleAttributes }

\* C3, the privacy floor: the prompt of an attributes_only request holds no
\* token of the user's text outside the categorical vocabulary, in
\* particular none longer than 3 characters.
C3_PrivacyFloor ==
    (chPc = "done" /\ chResult.kind = "Ok"
       /\ chResult.value.content_mode = "attributes_only")
        => \A i \in DOMAIN chText :
              (chText[i] \in Words /\ chText[i] \notin CategoricalVocabulary)
                  => chText[i] \notin Range(chResult.value.prompt)

(***************************************************************************)
(* Properties of the persona store (checked under SpecStore)               *)
(***************************************************************************)
\* C9: every persisted persona satisfies P1 and P2 (an operation that would
\* persist a violating persona is rejected and leaves the store unchanged).
C9_StoredPersonasValid ==
    \A id \in PersonaIds :
        personas[id] # None =>
            P1(personas[id][1].policy) /\ P2(personas[id][1].policy)

(***************************************************************************)
(* Properties of the inference host (checked under SpecHost)               *)
(***************************************************************************)
\* C10, invariant L1: at most one model instance is in memory at any
\* moment; the predecessor is released before the successor is loaded.
C10_AtMostOneResident == Resident <= 1

(***************************************************************************)
(* Properties of the model download (checked under SpecDownload)           *)
(***************************************************************************)
\* C11, download progress: across all download_model_by_id calls the
\* reported progress never decreases, is at most 99 while a download is
\* streaming, and becomes 100 only after the temp file has been renamed to
\* the final path.
C11_ProgressMonotone ==
    /\ [][get_download_progress' >= get_download_progress]_vars
    /\ [](\A d \in Downloads : dlPc[d] = "streaming" => get_download_progress <= 99)
    /\ [][(get_download_progress' = 100 /\ get_download_progress # 100)
            => \E d \in Downloads : dlPc[d] = "renamed" /\ dlId[d] \in files]_vars

\* What C12 requires of a call with an unknown id: the state of the host is
\* left as it was.
HostUntouched == UNCHANGED <<active_model_id, loaded_model, download_progress, files>>

\* C12, the closed registry: set_active_model, download_model_by_id,
\* delete_model and ensure_model, given a name that is not a registry id,
\* fail with model-not-found and leave the active id, the loaded-model slot,
\* the download progress and the files unchanged.
C12_ClosedRegistry ==
    [][ /\ \A model_id \in CommandIds \ RegistryIds :
             /\ SetActiveModelCall(model_id)
                  => (cmdRet' = Err("ModelNotFound") /\ HostUntouched)
             /\ DeleteModelCall(model_id)
                  => (cmdRet' = Err("ModelNotFound") /\ HostUntouched)
             /\ \A d \in Downloads :
                  DownloadCall(d, model_id)
                    => /\ dlPc'[d] = "idle"
                       /\ dlRet'[d] = Err("ModelNotFound")
                       /\ HostUntouched
        /\ \A model_name \in EnsureNames \ RegistryIds :
             \A d \in Downloads :
                  EnsureCall(d, model_name)
                    => /\ dlPc'[d] = "idle"
                       /\ dlRet'[d] = Err("ModelNotFound")
                       /\ HostUntouched ]_vars

\* C23, required mode never releases raw text: a decision with is_safe =
\* true for a persona in required mode (whether or not enable_local_anonymizer
\* is set) is served locally, or is attributes_only, or is anonymized.
C23_RequiredNeverRaw ==
    (RtDecided /\ RtRequired /\ rtResult.value.is_safe)
        => \/ rtResult.value.backend = "Ollama"
           \/ rtResult.value.content_mode = "AttributesOnly"
           \/ rtResult.value.anonymize

(***************************************************************************)
(* Properties of the anonymization service (checked under SpecAnon)        *)
(***************************************************************************)
\* pat occurs in text.
Contains(text, pat) ==
    \E i \in 1..(Len(text) - Len(pat) + 1) : SubSeq(text, i, i + Len(pat) - 1) = pat

\* The categories among the mappings of a result.
MappedCategories(mappings) == { mappings[i].pii_category : i \in 1..Len(mappings) }

\* The acceptance rule for a field of the first pass: the value is present
\* and non-empty and the confidence reaches the threshold.
Acceptable(field) ==
    /\ field.value # None
    /\ field.value[1] # <<>>
    /\ field.confidence >= DEFAULT_CONFIDENCE_THRESHOLD

\* The text has a token one of the regex patterns matches.
HasRegexToken(text) ==
    \E i \in 1..Len(text) : text[i] \in BsnTokens \cup IbanTokens \cup EuroTokens

\* C13: the result of deanonymize_text on the result of anonymize_text holds,
\* for every mapping, no placeholder token of the mapping, holds the
\* bracketed category tag where the anonymized text held the placeholder, and
\* holds none of the PII values the first pass replaced.
C13_DeanonRoundTrip ==
    anPc = "deanonymized" =>
        /\ \A i \in 1..Len(anOut.mappings) :
             LET m == anOut.mappings[i]
             IN  /\ ~Contains(anDeanon, placeholder_text(m.pii_category, m.placeholder))
                 /\ Contains(anOut.anonymized_text,
                             placeholder_text(m.pii_category, m.placeholder))
                      => Contains(anDeanon, category_tag(m.pii_category))
        /\ \A c \in CategorySet :
             (Acceptable(anExtraction[c]) /\ Contains(anText, anExtraction[c].value[1]))
                => ~Contains(anDeanon, anExtraction[c].value[1])

\* C16: a field of the extraction has a mapping in the result of
\* anonymize_text exactly if its value is present and non-empty and its
\* confidence is at least the threshold; when no field is accepted (and no
\* regex pattern matches) the text is returned unchanged.
C16_FirstPassAcceptance ==
    anPc = "anonymized" =>
        /\ \A c \in CategorySet :
             c \in MappedCategories(anOut.mappings) <=> Acceptable(anExtraction[c])
        /\ ((\A c \in CategorySet : ~Acceptable(anExtraction[c])) /\ ~HasRegexToken(anText))
              => anOut.anonymized_text = anText

\* C25, every mapping has its placeholder in the output: each mapping that
\* anonymize_text returns corresponds to a placeholder that occurs intact in
\* the anonymized text it returns; a value that was not replaced (absent
\* from the text, or replaced by an earlier step) gets no mapping, and no
\* later replacement alters an earlier placeholder.
C25_MappingHasPlaceholder ==
    anPc = "anonymized" =>
        \A i \in 1..Len(anOut.mappings) :
            Contains(anOut.anonymized_text,
                     placeholder_text(anOut.mappings[i].pii_category,
                                      anOut.mappings[i].placeholder))

(***************************************************************************)
(* Properties of re-hydration (checked under SpecRehydrate)                *)
(***************************************************************************)
\* C14: a second call of rehydrate_template with the same template and the
\* same values returns a result equal to the first in every field, the order
\* of unfilled_placeholders included.
C14_RehydrationRepeatable == [][RhRepeat => rhResult' = rhResult]_vars

\* The placeholders of PLACEHOLDERS.
RegisteredPlaceholders == { PLACEHOLDERS[i][2] : i \in 1..Len(PLACEHOLDERS) }

\* The value the replacements hold for a registered placeholder.
OwnValue(placeholder, pii) ==
    LET i == CHOOSE k \in 1..Len(replacements(pii)) :
                 replacements(pii)[k].placeholder = placeholder
    IN  replacements(pii)[i].value

\* The template is built from registered placeholders and plain characters,
\* and the values have one for each placeholder of the template.
CompleteFor(template, pii) ==
    \A i \in 1..Len(template) :
        /\ template[i] \in RegisteredPlaceholders \cup {"D"}
        /\ template[i] \in RegisteredPlaceholders => OwnValue(template[i], pii) # None

\* The template with every placeholder occurrence replaced by its own value,
\* all at once.
RECURSIVE Substituted(_, _)
Substituted(template, pii) ==
    IF template = <<>> THEN <<>>
    ELSE (IF Head(template) \in RegisteredPlaceholders
          THEN OwnValue(Head(template), pii)[1]
          ELSE <<Head(template)>>)
         \o Substituted(Tail(template), pii)

\* C15: for a template of registered placeholders and values that have one
\* for each of them, rehydrate_template returns is_complete = true and the
\* template with each placeholder occurrence replaced by its own value; no
\* substituted value is rewritten by a later replacement.
C15_TemplateRoundTrip ==
    (rhPc # "idle" /\ CompleteFor(rhTemplate, rhPii)) =>
        /\ rhResult.is_complete
        /\ rhResult.content = Substituted(rhTemplate, rhPii)

\* C29, masked values do not reveal sensitive data: for every filled
\* placeholder with is_sensitive = true, masked_value does not contain the
\* whole value that was substituted for the placeholder.
C29_MaskedSensitive ==
    rhPc # "idle" =>
        \A i \in 1..Len(rhResult.filled_placeholders) :
            LET f == rhResult.filled_placeholders[i]
            IN  f.is_sensitive
                  => ~Contains(f.masked_value, OwnValue(f.placeholder, rhPii)[1])

\* C30, completeness agrees with analysis: when rehydrate_template returns
\* is_complete = true, analyze_template on the same template and values
\* returns can_fully_hydrate = true; and every bracketed placeholder of the
\* template that has no value, registered or not, is among
\* unfilled_placeholders and makes is_complete false.
C30_CompleteAgreesWithAnalysis ==
    rhPc = "analyzed" =>
        /\ rhResult.is_complete => rhAnalysis.can_fully_hydrate
        /\ \A i \in 1..Len(rhTemplate) :
             (/\ matches_placeholder(rhTemplate[i])
              /\ ~has_value_for_placeholder(placeholder_key(rhTemplate[i]), rhPii))
                => /\ rhTemplate[i] \in Range(rhResult.unfilled_placeholders)
                   /\ ~rhResult.is_complete

(***************************************************************************)
(* Properties of the load gate (checked under SpecHost)                    *)
(***************************************************************************)
\* Task t is inside do_load_model.
LoadRunning(t) == pc[t] \in {"do_load", "loading", "store_slot"}

\* C17: in every interleaving of generate and preload calls at most one
\* do_load_model is running.
C17_SingleLoad == Cardinality({ t \in Tasks : LoadRunning(t) }) <= 1

\* A load is running while another caller has lost the compare_exchange and
\* waits.
C17_Witness ==
    \E t, u \in Tasks : t # u /\ pc[t] = "loading" /\ pc[u] \in {"wait", "cas2"}

\* Task t resumes from the wait of the load gate by proceeding with the
\* model in the slot.
ProceedsAfterWait(t) == pc[t] = "wait_check" /\ pc'[t] \in {"idle", "infer_lock"}

\* Task t resumes from the wait of the load gate by issuing a load.
LoadsAfterWait(t) == pc[t] = "cas2" /\ pc'[t] = "do_load"

\* C19: a caller that resumes from the wait of the load gate proceeds, or
\* issues a load, for the id that is active then; it never does so for an id
\* set_active_model has replaced while it waited.
C19_RecheckAfterChange ==
    [][\A t \in Tasks :
          (ProceedsAfterWait(t) \/ LoadsAfterWait(t)) => active_id[t] = active_model_id]_vars

\* C20: while a generate call decodes, the loaded_model lock is free for
\* another task to take.
C20_SlotLockFreeDuringDecode ==
    \A t \in Tasks : pc[t] = "decoding" => slotLock = None

\* C26, inference runs on the model it loaded for: when a generate call
\* decodes, the model it took from the slot has the id its
\* load_model_if_needed read as the active id.
C26_DecodesLoadedModel ==
    \A t \in Tasks : pc[t] = "decoding" => using[t] = Some(active_id[t])

\* The model-load-failed errors of load_model_if_needed and do_load_model.
LoadFailed(r) ==
    /\ r.kind = "Err"
    /\ r.value \in {"ModelLoadFailed: Model is still loading",
                    "ModelLoadFailed: Failed to load model"}

\* C27, no spurious load failure: a caller gets a model-load-failed error
\* only from the step in which the load it attempted fails, never from
\* losing the compare_exchange on the loading flag.
C27_NoSpuriousLoadFailure ==
    [][\A t \in Tasks :
          (LoadFailed(ret'[t]) /\ ~LoadFailed(ret[t])) => pc[t] = "loading"]_vars

(***************************************************************************)
(* Properties of the loading flag with cancellable callers                 *)
(* (checked under SpecHostCancel)                                          *)
(***************************************************************************)
\* Task t is between setting the loading flag and clearing it.
HoldsFlag(t) == LoadRunning(t) \/ pc[t] = "load_done"

\* C28, the loading flag tracks a running load: is_loading is true only
\* while some caller's load is in progress; once the load has ended, by
\* success, by failure or by the caller's await being cancelled, it is false.
C28_FlagTracksLoad == is_loading => \E t \in Tasks : HoldsFlag(t)

(***************************************************************************)
(* Properties of the load gate under fair scheduling (SpecHostFair)        *)
(***************************************************************************)
\* Task t has returned from load_model_if_needed.
OutOfGate(t) == pc[t] \in {"idle", "infer_lock", "decoding"}

\* C18: a caller that found a load in progress leaves its wait only once the
\* flag is clear, that is once that load has completed or failed, and every
\* waiting caller eventually returns from load_model_if_needed.
C18_WaitingCallers ==
    /\ [][\A t \in Tasks : (pc[t] = "wait" /\ pc'[t] # "wait") => ~is_loading]_vars
    /\ \A t \in Tasks : (pc[t] = "wait") ~> OutOfGate(t)

(***************************************************************************)
(* Properties of the downloaded files (checked under SpecDownload)         *)
(***************************************************************************)
\* The download tasks that hold the temp file of model_id open for writing.
TempWriters(model_id) ==
    { d \in Downloads : dlId[d] = model_id /\ dlFile[d] = "temp" }

\* C21: a file at a model's final path is a completely written download,
\* and at most one download task at a time is writing a model's temp file.
C21_NoPartialFile ==
    /\ \A m \in files : fileBytes[m] = AllChunks
    /\ \A m \in RegistryIds : Cardinality(TempWriters(m)) <= 1

(***************************************************************************)
(* Properties of the generation loop (checked under SpecGenerate)          *)
(***************************************************************************)
\* All bytes of out are the same byte.
Identical(out) == \A i \in 1..Len(out) : out[i] = out[1]

\* C22, boundaries of the repetition guard: whatever the split into tokens,
\* the guard does not fire on an output of exactly 80 identical bytes, and
\* no generation is still running, the guard not having fired, with an
\* output of 120 or more identical bytes.
C22_RepetitionBoundaries ==
    /\ (stop = "repetition" /\ len_at_stop = 2 * rep_window) => FALSE
    /\ (gnPc = "sampling" /\ Identical(output_bytes)) => Len(output_bytes) < 3 * rep_window

\* C24, contiguous decode positions: every decode call puts its tokens at
\* the positions that follow the tokens already decoded (the prompt at
\* 0 .. prompt_len - 1, the k-th sampled token at prompt_len + k), and the
\* generated-token count n_cur - prompt_len is not negative.
C24_ContiguousPositions ==
    /\ batch.n_tokens > 0 => batch.pos + batch.n_tokens = decoded
    /\ gnPc \in {"sampling", "generated", "returned"} => n_cur - token_count >= 0

====
